---- MODULE Spec2Model ----
(***************************************************************************)
(* Model of the progressive multi-key record-linkage engine of             *)
(* buildings_pipeline/assets/combined_data.py (combined_buildings_data,    *)
(* prepare_address_data, merge_address_datasets).                          *)
(*                                                                         *)
(* Strings are sequences of one-character tokens.  TLA+ strings are ASCII, *)
(* so the Cyrillic names of the source are transliterated:                 *)
(*   Улица -> "Ulitsa", Дом -> "Dom", Корпус -> "Korpus",                  *)
(*   Литера -> "Litera", по_всем_полям -> "po_vsem_polyam",                *)
(*   по_улице_и_дому -> "po_ulitse_i_domu",                                *)
(*   по_улице_дому_корпусу -> "po_ulitse_domu_korpusu",                    *)
(*   по_улице_дому_литере -> "po_ulitse_domu_litere",                      *)
(*   только_citywalls -> "tolko_citywalls",                                *)
(*   только_opendata -> "tolko_opendata".                                  *)
(* Character tokens: "a"/"A" a basic Latin letter, "ya"/"YA" a Cyrillic    *)
(* letter of the range а-я / А-Я, "yo"/"YO" the Cyrillic ё / Ё (U+0451,    *)
(* outside а-я), "e_acute"/"E_ACUTE" the Latin é / É, "1" "2" digits,      *)
(* " " a blank, "." "," "-" "/" punctuation.  The Cyrillic letters of the   *)
(* address markers are spelled by their transliteration: "az" а, "b" б,    *)
(* "v" в, "g" г, "d" д, "e" е, "i" и, "k" к, "l" л, "m" м, "n" н, "o" о,   *)
(* "p" п, "r" р, "s" с, "t" т, "u" у, and in upper case "AZ" А ... "U" У.  *)
(***************************************************************************)
EXTENDS Integers, Sequences, FiniteSets, TLC

VARIABLES
    pc,              \* position in combined_buildings_data / merge_address_datasets
    buildings_data,  \* Source A as loaded (line 30)
    open_data,       \* Source B as loaded (lines 39-43)
    df1, df2,        \* the engine's working copies (lines 200-214)
    df1_remaining, df2_remaining,
    merge_results,   \* list of frames (line 225)
    ids1_all, ids2_all,
    ids1_street_house, ids2_street_house,
    ids1_corpus, ids2_corpus,
    ids1_liter, ids2_liter,
    df1_only, df2_only,
    final_merged,    \* the concatenated frame, coalesced, before the id columns are dropped
    combined_df,     \* what merge_address_datasets returns
    outcome,         \* "running" | "returned" | "raised"
    load_errors,     \* the sources whose load raised and was logged (lines 31-33, 44-46)
    run,             \* 1 in the first run on the inputs, 2 in the second
    first_run,       \* what the first run returned and reported
    address,         \* the free-text address handed to extract_address_components
    parser_source,   \* the source whose parser is applied to it
    result,          \* the components the parser returned
    \* scrape_street_page (citywalls_data.py, lines 93-200)
    retries,         \* its parameter
    attempt,         \* the loop variable of line 94
    http_requests,   \* what each requests.get of line 103 led to, in order
    page_result,     \* what the function returned
    \* process_pagination (citywalls_data.py, lines 203-273)
    base_url_has_id, \* whether the pattern of line 217 finds a street id in base_url
    page,
    last_buildings,
    same_size_count,
    all_data,
    fetched,         \* what each call of line 229 returned, in order
    \* scrape_all_streets (citywalls_data.py, lines 293-352)
    street_links,    \* the street names of the index, in index order
    checkpoint,      \* the checkpoint file
    last_street,
    resume_mode,
    street_i,        \* the position of the loop of line 319 in street_links
    streets_processed,
    scraped,         \* the index positions handed to process_pagination, in order
    timed_out,       \* the time limit of line 321 ended the loop
    \* the paginated download of spb_open_data (spb_open_data.py, lines 225-433)
    total_pages,     \* the pages the portal serves
    last_page_size,  \* the records on the last of them
    info_file_ok,    \* whether the info file of line 318 can be read
    temp_file,       \* the records in the temporary file
    all_results,
    start_page,
    page_num,
    next_page,       \* the page the 'next' link points to
    requested,       \* the pages requested with success, in order
    broke_off,       \* the download gave up on a page (lines 397-400, 419-433)
    df_returned      \* the records of the frame the asset returned

vars == <<pc, buildings_data, open_data, df1, df2, df1_remaining, df2_remaining,
          merge_results, ids1_all, ids2_all, ids1_street_house, ids2_street_house,
          ids1_corpus, ids2_corpus, ids1_liter, ids2_liter, df1_only, df2_only,
          final_merged, combined_df, outcome, load_errors, run, first_run,
          address, parser_source, result,
          retries, attempt, http_requests, page_result,
          base_url_has_id, page, last_buildings, same_size_count, all_data, fetched,
          street_links, checkpoint, last_street, resume_mode, street_i,
          streets_processed, scraped, timed_out,
          total_pages, last_page_size, info_file_ok, temp_file, all_results,
          start_page, page_num, next_page, requested, broke_off, df_returned>>

rerun_vars == <<run, first_run>>

parser_vars == <<address, parser_source, result>>

\* Everything the merge asset holds apart from its position.
merge_vars ==
    <<buildings_data, open_data, df1, df2, df1_remaining, df2_remaining,
      merge_results, ids1_all, ids2_all, ids1_street_house, ids2_street_house,
      ids1_corpus, ids2_corpus, ids1_liter, ids2_liter, df1_only, df2_only,
      final_merged, combined_df, outcome, load_errors, rerun_vars, parser_vars>>

street_page_vars == <<retries, attempt, http_requests, page_result>>

pagination_vars ==
    <<base_url_has_id, page, last_buildings, same_size_count, all_data, fetched>>

streets_vars ==
    <<street_links, checkpoint, last_street, resume_mode, street_i,
      streets_processed, scraped, timed_out>>

download_vars ==
    <<total_pages, last_page_size, info_file_ok, temp_file, all_results,
      start_page, page_num, next_page, requested, broke_off, df_returned>>

\* The state of the two collector assets.
collector_vars == <<street_page_vars, pagination_vars, streets_vars, download_vars>>

\* ------------------------------------------------------------------ bounds
\* Most rows one source holds.
MaxRows == 2
\* Most rows the two sources hold together.
MaxTotal == 3
\* Longest street of the runs that exercise the comparison key.
MaxKeyLen == 2

\* ------------------------------------------------------- characters, strings
\* A missing value of a pandas frame (NaN); no string is equal to it.
NaN == <<"NaN">>

Letters == {"a", "A", "ya", "YA", "yo", "YO", "e_acute", "E_ACUTE"}
Digits == {"1", "2"}
Whitespace == {" "}

\* The spelled Cyrillic letters, lower case and upper case in the same order.
CyrLowerSeq ==
    <<"az", "b", "v", "g", "d", "e", "i", "k", "l", "m", "n", "o", "p", "r", "s", "t", "u">>

CyrUpperSeq ==
    <<"AZ", "B", "V", "G", "D", "E", "I", "K", "L", "M", "N", "O", "P", "R", "S", "T", "U">>

CyrLower == {CyrLowerSeq[i] : i \in 1..Len(CyrLowerSeq)} \cup {"ya"}

CyrUpper == {CyrUpperSeq[i] : i \in 1..Len(CyrUpperSeq)} \cup {"YA"}

\* str.lower() of one character.
LowerChar(ch) ==
    CASE ch = "A" -> "a"
      [] ch = "YA" -> "ya"
      [] ch = "YO" -> "yo"
      [] ch = "E_ACUTE" -> "e_acute"
      [] \E i \in 1..Len(CyrUpperSeq) : CyrUpperSeq[i] = ch ->
            CyrLowerSeq[CHOOSE i \in 1..Len(CyrUpperSeq) : CyrUpperSeq[i] = ch]
      [] OTHER -> ch

\* str.upper() of one character.
UpperChar(ch) ==
    CASE ch = "a" -> "A"
      [] ch = "ya" -> "YA"
      [] ch = "yo" -> "YO"
      [] ch = "e_acute" -> "E_ACUTE"
      [] \E i \in 1..Len(CyrLowerSeq) : CyrLowerSeq[i] = ch ->
            CyrUpperSeq[CHOOSE i \in 1..Len(CyrLowerSeq) : CyrLowerSeq[i] = ch]
      [] OTHER -> ch

\* Lower that leaves the case as it is.
Lower_Missing(s) == s

Lower(s) == [i \in 1..Len(s) |-> LowerChar(s[i])]

Upper(s) == [i \in 1..Len(s) |-> UpperChar(s[i])]

RECURSIVE LStrip(_)
LStrip(s) == IF s # <<>> /\ Head(s) \in Whitespace THEN LStrip(Tail(s)) ELSE s

RECURSIVE RStrip(_)
RStrip(s) ==
    IF s # <<>> /\ s[Len(s)] \in Whitespace THEN RStrip(SubSeq(s, 1, Len(s) - 1)) ELSE s

\* str.strip()
Strip(s) == RStrip(LStrip(s))

\* The characters the class [а-яa-z0-9] of line 214 matches.
KeptClass == {"a", "1", "2"} \cup CyrLower

KeepChar(ch) == ch \in KeptClass

\* .str.replace(r'[^а-яa-z0-9]', '', regex=True)
RemoveOthers(s) == SelectSeq(s, KeepChar)

\* The comparison key of one value, lines 211-214.
CleanValue(v) == RemoveOthers(Strip(Lower(IF v = NaN THEN <<>> ELSE v)))

\* Clean-up of one prepared value, lines 182-184.
PrepareValue(field, v) ==
    LET s == Strip(IF v = NaN THEN <<>> ELSE v)
    IN  IF field = "Litera" \/ field = "Korpus" THEN Upper(s) ELSE s

\* ------------------------------------------------------------------- frames
AddrCols == {"Ulitsa", "Dom", "Korpus", "Litera"}

CleanCol(col) == col \o "_clean"

CleanCols == {CleanCol(col) : col \in AddrCols}

\* A frame: its set of columns and its rows, each row a function on the columns.
Frame(columns, rows) == [columns |-> columns, rows |-> rows]

\* pd.DataFrame()
EmptyFrame == Frame({}, <<>>)

\* DataFrame.empty
IsEmpty(df) == Len(df.rows) = 0

\* The cell of an integer identifier.
IdCell(i) == <<ToString(i)>>

\* TagCell that writes the tag of pass 1 whatever the name.
TagCell_AlwaysAllFields(name) == <<"po_vsem_polyam">>

\* The cell of a merge_type tag.
TagCell(name) == <<name>>

\* row.get(col, default)
Get(row, col, default) == IF col \in DOMAIN row THEN row[col] ELSE default

\* A row with its columns renamed by the one-to-one function ren.
RenameRow(row, ren) ==
    [d \in {ren[c] : c \in DOMAIN ren} |-> row[CHOOSE c \in DOMAIN ren : ren[c] = d]]

\* A row with one more (or one overwritten) column.
WithCol(row, col, v) == [c \in DOMAIN row \cup {col} |-> IF c = col THEN v ELSE row[c]]

\* set(df[col])
ColumnSet(df, col) == {df.rows[i][col] : i \in 1..Len(df.rows)}

\* NotIn that empties the pool: a pass that removes the unmatched records too.
NotIn_DropAll(df, id_col, ids) == [columns |-> df.columns, rows |-> <<>>]

\* NotIn with the filter inverted: a pass that keeps its matches in the pool and
\* drops the rest.
NotIn_Inverted(df, id_col, ids) ==
    LET Keep(row) == row[id_col] \in ids
    IN  [columns |-> df.columns, rows |-> SelectSeq(df.rows, Keep)]

\* NotIn without the filter: a pass that leaves its matches in the pool.
NotIn_KeepAll(df, id_col, ids) == df

\* df[~df[id_col].isin(ids)]
NotIn(df, id_col, ids) ==
    LET Keep(row) == row[id_col] \notin ids
    IN  Frame(df.columns, SelectSeq(df.rows, Keep))

\* ------------------------------------------------------- the linkage engine
RECURSIVE Flatten(_)
Flatten(seqs) == IF seqs = <<>> THEN <<>> ELSE Head(seqs) \o Flatten(Tail(seqs))

\* KeysAgree with the null semantics of a database join: a record whose keys are
\* all empty matches nothing.
KeysAgree_EmptyMatchesNothing(l, r, on_cols) ==
    /\ \A k \in on_cols : l[k] = r[k]
    /\ \E k \in on_cols : l[k] # <<>>

\* KeysAgree with one equal key column being enough.
KeysAgree_Any(l, r, on_cols) == \E k \in on_cols : l[k] = r[k]

\* The equi-join condition of pd.merge(..., on=on_cols): equal in every key column.
KeysAgree(l, r, on_cols) == \A k \in on_cols : l[k] = r[k]

\* Hits that stops at the first right row: a one-to-one join.
Hits_FirstOnly(l, right_df, on_cols) ==
    LET Hit(r) == \A k \in on_cols : l[k] = r[k]
        hits == SelectSeq(right_df.rows, Hit)
    IN  IF hits = <<>> THEN <<>> ELSE <<Head(hits)>>

\* The right rows an inner join pairs with one left row, in the order of the
\* right frame.
Hits(l, right_df, on_cols) ==
    LET Hit(r) == KeysAgree(l, r, on_cols)
    IN  SelectSeq(right_df.rows, Hit)

\* pd.merge(left_df, right_df, on=on_cols, how='inner',
\*          suffixes=('_citywalls', '_opendata')), with merge_type set: the rows in
\* the order of the left rows, and for one left row in the order of the right rows.
\* Only a column that both frames hold and that is no key gets a suffix.
MergedFrame(left_df, right_df, on_cols, merge_name) ==
    LET LeftRen(c) ==
            IF c \notin on_cols /\ c \in right_df.columns THEN c \o "_citywalls" ELSE c
        RightRen(c) ==
            IF c \in left_df.columns THEN c \o "_opendata" ELSE c
        rightOnly == right_df.columns \ on_cols
        JoinRow(l, r) ==
            RenameRow(l, [c \in left_df.columns |-> LeftRen(c)])
                @@ RenameRow(r, [c \in rightOnly |-> RightRen(c)])
                @@ ("merge_type" :> TagCell(merge_name))
        RowsFor(l) ==
            LET hits == Hits(l, right_df, on_cols)
            IN  [j \in 1..Len(hits) |-> JoinRow(l, hits[j])]
    IN  Frame({LeftRen(c) : c \in left_df.columns}
                  \cup {RightRen(c) : c \in rightOnly} \cup {"merge_type"},
              Flatten([i \in 1..Len(left_df.rows) |-> RowsFor(left_df.rows[i])]))

\* merge_and_track, lines 217-221: the merged frame and the identifiers in it.
merge_and_track(left_df, right_df, on_cols, merge_name) ==
    LET merged == MergedFrame(left_df, right_df, on_cols, merge_name)
    IN  [merged |-> merged,
         ids1 |-> ColumnSet(merged, "id_1"),
         ids2 |-> ColumnSet(merged, "id_2")]

\* The columns of `wanted` that both frames hold (lines 228, 245, 261, 277).
InBoth(wanted) == {col \in wanted : col \in df1.columns /\ col \in df2.columns}

merge_cols == InBoth(CleanCols)

street_house_cols == InBoth({"Ulitsa_clean", "Dom_clean"})

street_house_corpus_cols == InBoth({"Ulitsa_clean", "Dom_clean", "Korpus_clean"})

street_house_liter_cols == InBoth({"Ulitsa_clean", "Dom_clean", "Litera_clean"})

\* Whether each pass executes (lines 231, 248, 264, 280).
Pass1Runs == Cardinality(merge_cols) > 0

\* An engine without its street+house pass.
Pass2Runs_Never == FALSE

Pass2Runs == Cardinality(street_house_cols) > 0

\* Pass3Runs with the guard off by one.
Pass3Runs_OffByOne == Cardinality(street_house_corpus_cols) > 1

Pass3Runs == Cardinality(street_house_corpus_cols) > 2

Pass4Runs == Cardinality(street_house_liter_cols) > 2

\* prepare_unmerged_df, lines 294-312.
prepare_unmerged_df(df, other_df, id_col, source_name) ==
    IF IsEmpty(df) THEN EmptyFrame
    ELSE
        LET suffix == IF source_name = "tolko_citywalls" THEN "_citywalls" ELSE "_opendata"
            other_suffix == IF suffix = "_citywalls" THEN "_opendata" ELSE "_citywalls"
            \* no column of a source ends in _citywalls or _opendata
            Ren(col) == IF col \notin ({id_col} \cup CleanCols) THEN col \o suffix ELSE col
            renamed == {Ren(col) : col \in df.columns}
            placeholders ==
                {col \in other_df.columns :
                    /\ col \in {c \o other_suffix : c \in AddrCols \cup CleanCols}
                    /\ col \notin renamed}
            Row(row) ==
                RenameRow(row, [col \in df.columns |-> Ren(col)])
                    @@ [col \in placeholders |-> NaN]
                    @@ ("merge_type" :> TagCell(source_name))
        IN  Frame(renamed \cup placeholders \cup {"merge_type"},
                  [i \in 1..Len(df.rows) |-> Row(df.rows[i])])

\* Concat whose row order depends on the run, as an unordered merge of shards
\* would give.
Concat_Sharded(frames) ==
    LET ordered == IF run = 1 THEN frames
                   ELSE [i \in 1..Len(frames) |-> frames[Len(frames) + 1 - i]]
        columns == UNION {ordered[i].columns : i \in 1..Len(ordered)}
        Fill(row) == [c \in columns |-> Get(row, c, NaN)]
        Filled(df) == [i \in 1..Len(df.rows) |-> Fill(df.rows[i])]
        RECURSIVE Cat(_)
        Cat(seqs) == IF seqs = <<>> THEN <<>> ELSE Head(seqs) \o Cat(Tail(seqs))
    IN  [columns |-> columns,
         rows |-> Cat([i \in 1..Len(ordered) |-> Filled(ordered[i])])]

\* pd.concat(frames, ignore_index=True): the union of the columns, NaN where a
\* frame lacks a column.
Concat(frames) ==
    LET columns == UNION {frames[i].columns : i \in 1..Len(frames)}
        Fill(row) == [c \in columns |-> Get(row, c, NaN)]
        Filled(df) == [i \in 1..Len(df.rows) |-> Fill(df.rows[i])]
    IN  Frame(columns, Flatten([i \in 1..Len(frames) |-> Filled(frames[i])]))

\* One unified address column, lines 332-341: whether it is set, and its value.
CoalesceSets(columns, col) ==
    (col \o "_citywalls") \in columns \/ (col \o "_opendata") \in columns

CoalesceValue(columns, row, col) ==
    LET citywalls_col == col \o "_citywalls"
        opendata_col == col \o "_opendata"
    IN  IF citywalls_col \in columns /\ opendata_col \in columns
        THEN \* .fillna: only a missing value is replaced
             IF row[citywalls_col] = NaN THEN row[opendata_col] ELSE row[citywalls_col]
        ELSE IF citywalls_col \in columns THEN row[citywalls_col]
        ELSE row[opendata_col]

Coalesced(df) ==
    LET set == {col \in AddrCols : CoalesceSets(df.columns, col)}
        columns == df.columns \cup set
        Row(row) ==
            [c \in columns |->
                IF c \in set THEN CoalesceValue(df.columns, row, c) ELSE row[c]]
    IN  Frame(columns, [i \in 1..Len(df.rows) |-> Row(df.rows[i])])

\* bool(v) of a cell: NaN is a float and true, '' is false.
Truthy(v) == v # <<>>

\* str(v) inside an f-string.
Str(v) == IF v = NaN THEN <<"n", "a", "n">> ELSE v

\* The lambda of line 345 raises TypeError when it adds a str and NaN.
AddressRaises(row) ==
    \/ Get(row, "Litera", <<>>) = NaN
    \/ Get(row, "Korpus", <<>>) = NaN

\* The value of the lambda of line 345 (when it does not raise).
AddressOf(row) ==
    LET liter == Get(row, "Litera", <<>>)
        corpus == Get(row, "Korpus", <<>>)
    IN  Strip(Str(Get(row, "Ulitsa", <<>>)) \o <<",", " ">> \o Str(Get(row, "Dom", <<>>))
              \o (IF Truthy(liter) THEN <<" ", "l", "i", "t", ".">> \o liter ELSE <<>>)
              \o (IF Truthy(corpus) THEN <<" ", "k", "o", "r", "p", ".">> \o corpus ELSE <<>>))

WithAddress(df) ==
    Frame(df.columns \cup {"normalized_address"},
          [i \in 1..Len(df.rows) |->
              WithCol(df.rows[i], "normalized_address", AddressOf(df.rows[i]))])

\* final_merged.drop(cols_to_drop present), lines 350-351.
cols_to_drop == {"id_1", "id_2"} \cup CleanCols

Dropped(df) ==
    LET columns == df.columns \ cols_to_drop
    IN  Frame(columns, [i \in 1..Len(df.rows) |-> [c \in columns |-> df.rows[i][c]]])

\* ------------------------------------------------------- the address parser
\* The character classes of the regular expressions of lines 98-115, 143-162.
DigitClass == Digits

\* [а-яА-Я\d]: ё and Ё lie outside both ranges.
TokenClass == CyrLower \cup CyrUpper \cup Digits

\* \w, and [\w\/\-]
WordClass == Letters \cup CyrLower \cup CyrUpper \cup Digits \cup {"_"}

HouseTailClass == WordClass \cup {"/", "-"}

\* s from position p on.
From(s, p) == SubSeq(s, p, Len(s))

\* The literal f stands in s at position p.
StartsWithAt(s, p, f) == p + Len(f) - 1 <= Len(s) /\ SubSeq(s, p, p + Len(f) - 1) = f

\* The first position from p on that holds no character of class (Len(s) + 1
\* when there is none): where a greedy class* that starts at p ends.
RECURSIVE RunEnd(_, _, _)
RunEnd(s, p, class) ==
    IF p <= Len(s) /\ s[p] \in class THEN RunEnd(s, p + 1, class) ELSE p

\* The literal prefixes of line 143, in the order of the alternation:
\* г\. | город | г\s+ | санкт-петербург,\s* | \s*спб\s*,\s* | нп в составе спб\s*
PrefixG == <<"g">>

PrefixGDot == <<"g", ".">>

PrefixGorod == <<"g", "o", "r", "o", "d">>

PrefixSanktPeterburg ==
    <<"s", "az", "n", "k", "t", "-", "p", "e", "t", "e", "r", "b", "u", "r", "g", ",">>

PrefixSpb == <<"s", "p", "b">>

PrefixNp ==
    <<"n", "p", " ", "v", " ", "s", "o", "s", "t", "az", "v", "e", " ", "s", "p", "b">>

\* The position after the match of the alternation at the start of s (1 when no
\* alternative matches); flags=re.IGNORECASE.
CityPrefixEnd(s) ==
    LET low == Lower(s)
        sp == RunEnd(low, 1, Whitespace)
        afterSpb == RunEnd(low, sp + Len(PrefixSpb), Whitespace)
    IN  CASE StartsWithAt(low, 1, PrefixGDot) -> 1 + Len(PrefixGDot)
          [] StartsWithAt(low, 1, PrefixGorod) -> 1 + Len(PrefixGorod)
          [] StartsWithAt(low, 1, PrefixG) /\ RunEnd(low, 2, Whitespace) > 2 ->
                RunEnd(low, 2, Whitespace)
          [] StartsWithAt(low, 1, PrefixSanktPeterburg) ->
                RunEnd(low, 1 + Len(PrefixSanktPeterburg), Whitespace)
          [] /\ StartsWithAt(low, sp, PrefixSpb)
             /\ StartsWithAt(low, afterSpb, <<",">>) ->
                RunEnd(low, afterSpb + 1, Whitespace)
          [] StartsWithAt(low, 1, PrefixNp) -> RunEnd(low, 1 + Len(PrefixNp), Whitespace)
          [] OTHER -> 1

\* re.sub(prefixes, '', address, flags=re.IGNORECASE).strip(), line 143.
StripCityPrefix(s) == Strip(From(s, CityPrefixEnd(s)))

\* A match of ,\s*|\s+(?=\d+) starts at position p of s.
SplitsAt(s, p) ==
    \/ s[p] = ","
    \/ /\ s[p] \in Whitespace
       /\ RunEnd(s, p, Whitespace) <= Len(s)
       /\ s[RunEnd(s, p, Whitespace)] \in DigitClass

\* re.split(r',\s*|\s+(?=\d+)', address, 1): one or two parts.
SplitOnce(s) ==
    LET points == {p \in 1..Len(s) : SplitsAt(s, p)}
    IN  IF points = {} THEN <<s>>
        ELSE LET p == CHOOSE q \in points : \A q2 \in points : q <= q2
                 end == IF s[p] = "," THEN RunEnd(s, p + 1, Whitespace)
                        ELSE RunEnd(s, p, Whitespace)
             IN  <<SubSeq(s, 1, p - 1), From(s, end)>>

MarkerDom == <<"d", "o", "m">>

MarkerD == <<"d", ".">>

\* HouseMatch that takes whatever token the house part starts with.
HouseMatch_AnyToken(house_part) ==
    SubSeq(house_part, 1, RunEnd(house_part, 1, HouseTailClass) - 1)

\* re.search(r'^(?:дом\s*|д\.\s*)?(\d+[\w\/\-]*)', house_part), group 1; '' when
\* there is no match (line 109-111).
HouseMatch(house_part) ==
    LET start == CASE StartsWithAt(house_part, 1, MarkerDom) ->
                          RunEnd(house_part, 1 + Len(MarkerDom), Whitespace)
                   [] StartsWithAt(house_part, 1, MarkerD) ->
                          RunEnd(house_part, 1 + Len(MarkerD), Whitespace)
                   [] OTHER -> 1
    IN  IF start <= Len(house_part) /\ house_part[start] \in DigitClass
        THEN SubSeq(house_part, start, RunEnd(house_part, start, HouseTailClass) - 1)
        ELSE <<>>

\* The ways (?:литера?|лит\.?|л\.?) can match, in the order the matcher tries
\* them, and the same for (?:корпус|корп\.?|к\.?).
LiterForms ==
    <<<<"l", "i", "t", "e", "r", "az">>, <<"l", "i", "t", "e", "r">>,
      <<"l", "i", "t", ".">>, <<"l", "i", "t">>,
      <<"l", ".">>, <<"l">>>>

CorpusForms ==
    <<<<"k", "o", "r", "p", "u", "s">>,
      <<"k", "o", "r", "p", ".">>, <<"k", "o", "r", "p">>,
      <<"k", ".">>, <<"k">>>>

\* The marker in form k, blanks and a token of TokenClass stand at position p.
FormMatchesAt(s, p, forms, k) ==
    /\ StartsWithAt(s, p, forms[k])
    /\ RunEnd(s, p + Len(forms[k]), Whitespace) <= Len(s)
    /\ s[RunEnd(s, p + Len(forms[k]), Whitespace)] \in TokenClass

\* re.search(r'(?:marker)\s*([а-яА-Я\d]+)', house_part), group 1: the leftmost
\* match, at that position the first form that matches, the token greedy; ''
\* when there is no match (lines 114-120).
MarkerMatch(s, forms) ==
    LET hits == {p \in 1..Len(s) : \E k \in 1..Len(forms) : FormMatchesAt(s, p, forms, k)}
    IN  IF hits = {} THEN <<>>
        ELSE LET p == CHOOSE q \in hits : \A q2 \in hits : q <= q2
                 ks == {k \in 1..Len(forms) : FormMatchesAt(s, p, forms, k)}
                 k == CHOOSE j \in ks : \A j2 \in ks : j <= j2
                 start == RunEnd(s, p + Len(forms[k]), Whitespace)
             IN  SubSeq(s, start, RunEnd(s, start, TokenClass) - 1)

NoComponents == [Ulitsa |-> <<>>, Dom |-> <<>>, Korpus |-> <<>>, Litera |-> <<>>]

\* extract_address_components of the source (lines 93-122 for citywalls, lines
\* 136-169 for opendata, which strips the city prefix first).
extract_address_components(source, addr) ==
    IF addr = NaN \/ addr = <<>> THEN NoComponents
    ELSE
        LET stripped == Strip(addr)
            text == IF source = "opendata" THEN StripCityPrefix(stripped) ELSE stripped
            parts == SplitOnce(text)
            house_part == Strip(parts[2])
        IN  IF Len(parts) < 2
            THEN [NoComponents EXCEPT !.Ulitsa = Strip(parts[1])]
            ELSE [Ulitsa |-> Strip(parts[1]),
                  Dom |-> Strip(HouseMatch(house_part)),
                  Korpus |-> Strip(MarkerMatch(house_part, CorpusForms)),
                  Litera |-> Strip(MarkerMatch(house_part, LiterForms))]

\* ---------------------------------------------------------------- the inputs
\* The values a loaded table holds in each address column: the streets of the
\* two sources differ in case and punctuation only, a corpus may be missing.
RawValues(source_name, col) ==
    CASE col = "Ulitsa" -> IF source_name = "citywalls"
                            THEN {<<"A", " ", "a", ".">>}
                            ELSE {<<"a", "a">>}
      [] col = "Dom" -> {<<"1">>, <<"2">>}
      [] col = "Korpus" -> {NaN, <<"2">>}
      [] col = "Litera" -> {<<"a">>}

RowsOver(source_name, columns) ==
    {row \in [columns -> UNION {RawValues(source_name, col) : col \in AddrCols}] :
        \A col \in columns : row[col] \in RawValues(source_name, col)}

\* The tables of n rows over any set of address columns.
Tables(source_name, n) ==
    UNION {{Frame(columns, rows) : rows \in [1..n -> RowsOver(source_name, columns)]} :
              columns \in SUBSET AddrCols}

Nothing == Frame({}, <<>>)

\* No first run yet; no components yet.
NoRun == <<>>

NotParsed == <<>>

\* No local of the engine is computed yet.
EngineIdle ==
    /\ df1 = Nothing /\ df2 = Nothing
    /\ df1_remaining = Nothing /\ df2_remaining = Nothing
    /\ merge_results = <<>>
    /\ ids1_all = {} /\ ids2_all = {}
    /\ ids1_street_house = {} /\ ids2_street_house = {}
    /\ ids1_corpus = {} /\ ids2_corpus = {}
    /\ ids1_liter = {} /\ ids2_liter = {}
    /\ df1_only = Nothing /\ df2_only = Nothing
    /\ final_merged = Nothing
    /\ combined_df = Nothing
    /\ outcome = "running"
    /\ run = 1
    /\ first_run = NoRun

\* The state of a run that has loaded nothing but its two sources.
NothingComputed ==
    /\ pc = "load"
    /\ EngineIdle

\* The collector assets are not running: scrape_street_page, process_pagination,
\* scrape_all_streets and the download have not been entered.
None == <<>>

NotReturned == <<"not returned">>

StreetPageIdle ==
    /\ retries = 3
    /\ attempt = 0
    /\ http_requests = <<>>
    /\ page_result = NotReturned

PaginationIdle ==
    /\ base_url_has_id = TRUE
    /\ page = 1
    /\ last_buildings = <<>>
    /\ same_size_count = 0
    /\ all_data = <<>>
    /\ fetched = <<>>

StreetsIdle ==
    /\ street_links = <<>>
    /\ checkpoint = None
    /\ last_street = None
    /\ resume_mode = FALSE
    /\ street_i = 1
    /\ streets_processed = 0
    /\ scraped = <<>>
    /\ timed_out = FALSE

DownloadIdle ==
    /\ total_pages = 1
    /\ last_page_size = 1
    /\ info_file_ok = TRUE
    /\ temp_file = None
    /\ all_results = <<>>
    /\ start_page = 1
    /\ page_num = 1
    /\ next_page = 0
    /\ requested = <<>>
    /\ broke_off = FALSE
    /\ df_returned = NotReturned

CollectorsIdle == StreetPageIdle /\ PaginationIdle /\ StreetsIdle /\ DownloadIdle

\* No address is being parsed.
NoParse ==
    /\ address = NaN
    /\ parser_source = "citywalls"
    /\ result = NotParsed

\* A load that raises is logged and leaves an empty frame (lines 31-33, 44-46);
\* a load that succeeds may give an empty frame as well.
LoadErrors ==
    /\ load_errors \in SUBSET {"citywalls", "opendata"}
    /\ "citywalls" \in load_errors => buildings_data = EmptyFrame
    /\ "opendata" \in load_errors => open_data = EmptyFrame

Init ==
    /\ \E n1, n2 \in 0..MaxRows :
          /\ n1 + n2 <= MaxTotal
          /\ buildings_data \in Tables("citywalls", n1)
          /\ open_data \in Tables("opendata", n2)
    /\ LoadErrors
    /\ NothingComputed
    /\ NoParse
    /\ CollectorsIdle

\* Inputs for the comparison key alone: Source A holds at most one record, whose
\* street is any string of at most MaxKeyLen characters; Source B failed to load.
KeyChars == Letters \cup {"1", " ", "."}

StringsUpTo(n) == UNION {[1..k -> KeyChars] : k \in 0..n}

InitKey ==
    /\ buildings_data \in
          {Frame({"Ulitsa"}, <<>>)}
              \cup {Frame({"Ulitsa"}, <<[Ulitsa |-> street]>>) : street \in StringsUpTo(MaxKeyLen)}
    /\ open_data = EmptyFrame
    /\ load_errors = {"opendata"}
    /\ NothingComputed
    /\ NoParse
    /\ CollectorsIdle

\* The free-text addresses handed to the parser.  A street, a separator and a
\* house part; the house part a number and up to two clauses, a clause a marker,
\* a gap and a token.
StreetText == <<"u", "l">>

LiterMarkers == {<<"l", "i", "t", "e", "r", "az">>, <<"l", "i", "t", ".">>, <<"l", ".">>}

CorpusMarkers == {<<"k", "o", "r", "p", "u", "s">>, <<"k", "o", "r", "p", ".">>, <<"k", ".">>}

Gaps == {<<>>, <<" ">>}

LiterTokens == {<<"AZ">>, <<"az">>, <<"k">>}

CorpusTokens == {<<"2">>, <<"1", "2">>}

ClauseSeparators == {<<" ">>, <<",", " ">>}

Clause(marker, gap, token) == marker \o gap \o token

\* street, number 1, then the liter clause and the corpus clause in either order
TwoClauseAddress(liter_first, lm, lg, X, csep, cm, cg, Y) ==
    StreetText \o <<",", " ", "1", " ">>
        \o (IF liter_first
            THEN Clause(lm, lg, X) \o csep \o Clause(cm, cg, Y)
            ELSE Clause(cm, cg, Y) \o csep \o Clause(lm, lg, X))

TwoClauseAddresses ==
    {TwoClauseAddress(f, lm, lg, X, csep, cm, cg, Y) :
        f \in BOOLEAN, lm \in LiterMarkers, lg \in Gaps, X \in LiterTokens,
        csep \in ClauseSeparators, cm \in CorpusMarkers, cg \in Gaps, Y \in CorpusTokens}

\* texts with no comma and no blank before a digit
UnsplittableAddresses ==
    {StreetText,
     StreetText \o <<"1">>,
     StreetText \o <<" ", "az">>,
     <<" ">> \o StreetText \o <<" ">>,
     <<" ">>,
     <<"1">>,
     <<"g", ".", " ">> \o StreetText,
     <<"G", "O", "R", "O", "D", " ">> \o StreetText,
     <<"g", " ">> \o StreetText,
     <<"n", "p", " ", "v", " ", "s", "o", "s", "t", "az", "v", "e", " ", "s", "p", "b", " ">>
         \o StreetText}

\* house parts that do not start with a digit, also not after дом or д.
DigitlessHouseParts ==
    {<<>>,
     <<"az">>,
     <<"d", "o", "m">>,
     <<"d", "o", "m", " ", "az">>,
     <<"b", "/", "n">>,
     <<"k", "o", "r", "p", ".", " ", "2">>,
     <<"l", "i", "t", ".", " ", "AZ">>,
     <<"-", "1">>}

DigitlessAddresses == {StreetText \o <<",", " ">> \o hp : hp \in DigitlessHouseParts}

\* house parts that start with a number
NumberedHouseParts ==
    {<<"1">>,
     <<"1", "2">>,
     <<"1", "/", "2">>,
     <<"1", "-", "az">>,
     <<"1", "az">>,
     <<"d", "o", "m", " ", "1">>,
     <<"d", ".", "1">>,
     <<"d", ".", " ", "1", " ", "k", ".", "2">>,
     <<"1", " ", "l", "i", "t", ".", "AZ">>,
     <<"1", ",", " ", "2">>}

NumberedAddresses ==
    {StreetText \o sep \o hp : sep \in {<<",", " ">>, <<",">>, <<" ">>, <<" ", " ">>},
                               hp \in NumberedHouseParts}
        \cup {<<"s", "p", "b", ",", " ">> \o StreetText \o <<",", " ", "1">>,
              <<"S", "az", "n", "k", "t", "-", "P", "e", "t", "e", "r", "b", "u", "r", "g",
                ",", " ">> \o StreetText \o <<" ", "1">>,
              <<"g", ".">> \o StreetText \o <<",", " ", "d", ".", " ", "1">>}

Addresses ==
    {NaN, <<>>} \cup UnsplittableAddresses \cup DigitlessAddresses
        \cup NumberedAddresses \cup TwoClauseAddresses

\* The parser alone, on one address of one source.
InitParse ==
    /\ address \in Addresses
    /\ parser_source \in {"citywalls", "opendata"}
    /\ result = NotParsed
    /\ pc = "parse"
    /\ buildings_data = EmptyFrame
    /\ open_data = EmptyFrame
    /\ load_errors = {}
    /\ EngineIdle
    /\ CollectorsIdle

\* --------------------------------------------------------------- the steps
\* Lines 91 and 134: the free-text address is parsed for Source A when the
\* table has it and lacks a street or a house column, for Source B whenever the
\* table has it.
ParserApplies(df, source_name) ==
    /\ "Adres" \in df.columns
    /\ \/ source_name = "opendata"
       \/ "Ulitsa" \notin df.columns
       \/ "Dom" \notin df.columns

\* A fill that overwrites every component, native or not.
FilledFields_All(df) == AddrCols

\* Lines 128-129 and 175-176: the components that are filled from the parser.
FilledFields(df) == {field \in AddrCols : field \notin df.columns}

\* prepare_address_data on a table whose address columns carry the standard
\* names (lines 64-88 then copy nothing): lines 58, 91-130, 134-186.
prepare_address_data(df, source_name) ==
    LET filled == IF ParserApplies(df, source_name) THEN FilledFields(df) ELSE {}
        columns == df.columns \cup filled
        Value(row, col) ==
            IF col \in filled
            THEN extract_address_components(source_name, row["Adres"])[col]
            ELSE row[col]
        Row(row) ==
            [col \in columns |->
                IF col \in AddrCols THEN PrepareValue(col, Value(row, col))
                ELSE row[col]]
    IN  Frame(columns, [i \in 1..Len(df.rows) |-> Row(df.rows[i])])

\* Lines 49-51: nothing to process.
NoData ==
    /\ pc = "load"
    /\ IsEmpty(buildings_data) /\ IsEmpty(open_data)
    /\ combined_df' = EmptyFrame
    /\ outcome' = "returned"
    /\ pc' = "done"
    /\ UNCHANGED <<collector_vars, load_errors, rerun_vars, parser_vars, buildings_data, open_data, df1, df2, df1_remaining, df2_remaining,
                   merge_results, ids1_all, ids2_all, ids1_street_house,
                   ids2_street_house, ids1_corpus, ids2_corpus, ids1_liter, ids2_liter,
                   df1_only, df2_only, final_merged>>

\* The working copy of lines 200-214: identifiers and comparison keys added.
WorkingCopy(df, id_col) ==
    LET present == {col \in AddrCols : col \in df.columns}
        columns == df.columns \cup {id_col} \cup {CleanCol(col) : col \in present}
        Row(i) ==
            [c \in columns |->
                IF c = id_col THEN IdCell(i - 1)
                ELSE IF c \in df.columns THEN df.rows[i][c]
                ELSE CleanValue(df.rows[i][CHOOSE col \in present : CleanCol(col) = c])]
    IN  Frame(columns, [i \in 1..Len(df.rows) |-> Row(i)])

\* A callee that works on the table it is handed would leave its work there.
CallerTable_InPlace(df, worked) == worked

\* df.copy() of lines 58 and 200-201: the callee works on a copy, so the table
\* of the caller is after the call what it was before.
CallerTable(df, worked) == df

\* Lines 189-214: both sources prepared, the engine entered.
StartMerge ==
    /\ pc = "load"
    /\ ~(IsEmpty(buildings_data) /\ IsEmpty(open_data))
    /\ df1' = WorkingCopy(prepare_address_data(buildings_data, "citywalls"), "id_1")
    /\ df2' = WorkingCopy(prepare_address_data(open_data, "opendata"), "id_2")
    /\ buildings_data' = CallerTable(buildings_data, df1')
    /\ open_data' = CallerTable(open_data, df2')
    /\ pc' = "pass1"
    /\ UNCHANGED <<collector_vars, load_errors, rerun_vars, parser_vars, df1_remaining, df2_remaining,
                   merge_results, ids1_all, ids2_all, ids1_street_house,
                   ids2_street_house, ids1_corpus, ids2_corpus, ids1_liter, ids2_liter,
                   df1_only, df2_only, final_merged, combined_df, outcome>>

\* Lines 228-242.
Pass1 ==
    /\ pc = "pass1"
    /\ IF Pass1Runs
       THEN LET m == merge_and_track(df1, df2, merge_cols, "po_vsem_polyam")
            IN  /\ merge_results' = Append(merge_results, m.merged)
                /\ ids1_all' = m.ids1
                /\ ids2_all' = m.ids2
                /\ df1_remaining' = NotIn(df1, "id_1", m.ids1)
                /\ df2_remaining' = NotIn(df2, "id_2", m.ids2)
       ELSE /\ df1_remaining' = df1
            /\ df2_remaining' = df2
            /\ ids1_all' = {}
            /\ ids2_all' = {}
            /\ UNCHANGED merge_results
    /\ pc' = "pass2"
    /\ UNCHANGED <<collector_vars, load_errors, rerun_vars, parser_vars, buildings_data, open_data, df1, df2, ids1_street_house,
                   ids2_street_house, ids1_corpus, ids2_corpus, ids1_liter, ids2_liter,
                   df1_only, df2_only, final_merged, combined_df, outcome>>

\* Lines 245-258.
Pass2 ==
    /\ pc = "pass2"
    /\ IF Pass2Runs
       THEN LET m == merge_and_track(df1_remaining, df2_remaining, street_house_cols,
                                     "po_ulitse_i_domu")
            IN  /\ merge_results' = Append(merge_results, m.merged)
                /\ ids1_street_house' = m.ids1
                /\ ids2_street_house' = m.ids2
                /\ df1_remaining' = NotIn(df1_remaining, "id_1", m.ids1)
                /\ df2_remaining' = NotIn(df2_remaining, "id_2", m.ids2)
       ELSE /\ ids1_street_house' = {}
            /\ ids2_street_house' = {}
            /\ UNCHANGED <<merge_results, df1_remaining, df2_remaining>>
    /\ pc' = "pass3"
    /\ UNCHANGED <<collector_vars, load_errors, rerun_vars, parser_vars, buildings_data, open_data, df1, df2, ids1_all, ids2_all,
                   ids1_corpus, ids2_corpus, ids1_liter, ids2_liter,
                   df1_only, df2_only, final_merged, combined_df, outcome>>

\* Lines 261-274.
Pass3 ==
    /\ pc = "pass3"
    /\ IF Pass3Runs
       THEN LET m == merge_and_track(df1_remaining, df2_remaining,
                                     street_house_corpus_cols, "po_ulitse_domu_korpusu")
            IN  /\ merge_results' = Append(merge_results, m.merged)
                /\ ids1_corpus' = m.ids1
                /\ ids2_corpus' = m.ids2
                /\ df1_remaining' = NotIn(df1_remaining, "id_1", m.ids1)
                /\ df2_remaining' = NotIn(df2_remaining, "id_2", m.ids2)
       ELSE /\ ids1_corpus' = {}
            /\ ids2_corpus' = {}
            /\ UNCHANGED <<merge_results, df1_remaining, df2_remaining>>
    /\ pc' = "pass4"
    /\ UNCHANGED <<collector_vars, load_errors, rerun_vars, parser_vars, buildings_data, open_data, df1, df2, ids1_all, ids2_all,
                   ids1_street_house, ids2_street_house, ids1_liter, ids2_liter,
                   df1_only, df2_only, final_merged, combined_df, outcome>>

\* Lines 277-290.
Pass4 ==
    /\ pc = "pass4"
    /\ IF Pass4Runs
       THEN LET m == merge_and_track(df1_remaining, df2_remaining,
                                     street_house_liter_cols, "po_ulitse_domu_litere")
            IN  /\ merge_results' = Append(merge_results, m.merged)
                /\ ids1_liter' = m.ids1
                /\ ids2_liter' = m.ids2
                /\ df1_remaining' = NotIn(df1_remaining, "id_1", m.ids1)
                /\ df2_remaining' = NotIn(df2_remaining, "id_2", m.ids2)
       ELSE /\ ids1_liter' = {}
            /\ ids2_liter' = {}
            /\ UNCHANGED <<merge_results, df1_remaining, df2_remaining>>
    /\ pc' = "residual"
    /\ UNCHANGED <<collector_vars, load_errors, rerun_vars, parser_vars, buildings_data, open_data, df1, df2, ids1_all, ids2_all,
                   ids1_street_house, ids2_street_house, ids1_corpus, ids2_corpus,
                   df1_only, df2_only, final_merged, combined_df, outcome>>

\* AppendNonEmpty that forgets the second frame.
AppendNonEmpty_FirstOnly(results, frames) ==
    LET NonEmpty(df) == ~IsEmpty(df)
    IN  results \o SelectSeq(<<frames[1]>>, NonEmpty)

\* merge_results with the non-empty frames of `frames` appended (lines 319-322).
AppendNonEmpty(results, frames) ==
    LET NonEmpty(df) == ~IsEmpty(df)
    IN  results \o SelectSeq(frames, NonEmpty)

\* Lines 315-328: the residual rows prepared and appended, everything concatenated;
\* with nothing to concatenate an empty frame is returned.
Residual ==
    /\ pc = "residual"
    /\ LET only1 == prepare_unmerged_df(df1_remaining, df2, "id_1", "tolko_citywalls")
           only2 == prepare_unmerged_df(df2_remaining, df1, "id_2", "tolko_opendata")
           results == AppendNonEmpty(merge_results, <<only1, only2>>)
       IN  /\ df1_only' = only1
           /\ df2_only' = only2
           /\ merge_results' = results
           /\ IF results # <<>>
              THEN /\ final_merged' = Concat(results)
                   /\ pc' = "assemble"
                   /\ UNCHANGED <<combined_df, outcome>>
              ELSE /\ combined_df' = EmptyFrame
                   /\ outcome' = "returned"
                   /\ pc' = "done"
                   /\ UNCHANGED final_merged
    /\ UNCHANGED <<collector_vars, load_errors, rerun_vars, parser_vars, buildings_data, open_data, df1, df2, df1_remaining, df2_remaining,
                   ids1_all, ids2_all, ids1_street_house, ids2_street_house,
                   ids1_corpus, ids2_corpus, ids1_liter, ids2_liter>>

\* Lines 332-372: the address columns coalesced, the display address built, the
\* service columns dropped; the TypeError of line 345 ends the run.
Assemble ==
    /\ pc = "assemble"
    /\ LET coalesced == Coalesced(final_merged)
       IN  /\ final_merged' = coalesced
           /\ IF \E i \in 1..Len(coalesced.rows) : AddressRaises(coalesced.rows[i])
              THEN /\ outcome' = "raised"
                   /\ UNCHANGED combined_df
              ELSE /\ outcome' = "returned"
                   /\ combined_df' = Dropped(WithAddress(coalesced))
    /\ pc' = "done"
    /\ UNCHANGED <<collector_vars, load_errors, rerun_vars, parser_vars, buildings_data, open_data, df1, df2, df1_remaining, df2_remaining,
                   merge_results, ids1_all, ids2_all, ids1_street_house,
                   ids2_street_house, ids1_corpus, ids2_corpus, ids1_liter, ids2_liter,
                   df1_only, df2_only>>

\* The statistics of lines 354-362, and whether the run has computed them.
stats ==
    [total |-> Len(final_merged.rows),
     by_all |-> Cardinality(ids1_all),
     by_street_house |-> Cardinality(ids1_street_house),
     by_corpus |-> Cardinality(ids1_corpus),
     by_liter |-> Cardinality(ids1_liter),
     citywalls_only |-> IF ~IsEmpty(df1_only) THEN Len(df1_only.rows) ELSE 0,
     opendata_only |-> IF ~IsEmpty(df2_only) THEN Len(df2_only.rows) ELSE 0]

StatsComputed == pc = "done" /\ outcome = "returned" /\ final_merged # Nothing

NoStats == <<>>

\* The asset materialised a second time on the same, unmodified tables: what the
\* first run returned and reported is kept, the locals start afresh.
Rerun ==
    /\ pc = "done"
    /\ run = 1
    /\ run' = 2
    /\ first_run' = [combined_df |-> combined_df,
                     outcome |-> outcome,
                     stats |-> IF StatsComputed THEN stats ELSE NoStats]
    /\ pc' = "load"
    /\ df1' = Nothing /\ df2' = Nothing
    /\ df1_remaining' = Nothing /\ df2_remaining' = Nothing
    /\ merge_results' = <<>>
    /\ ids1_all' = {} /\ ids2_all' = {}
    /\ ids1_street_house' = {} /\ ids2_street_house' = {}
    /\ ids1_corpus' = {} /\ ids2_corpus' = {}
    /\ ids1_liter' = {} /\ ids2_liter' = {}
    /\ df1_only' = Nothing /\ df2_only' = Nothing
    /\ final_merged' = Nothing
    /\ combined_df' = Nothing
    /\ outcome' = "running"
    /\ UNCHANGED <<collector_vars, load_errors, parser_vars, buildings_data, open_data>>

Next ==
    \/ NoData
    \/ StartMerge
    \/ Pass1
    \/ Pass2
    \/ Pass3
    \/ Pass4
    \/ Residual
    \/ Assemble

Spec == Init /\ [][Next]_vars

\* The runs on the inputs of InitKey.
SpecKey == InitKey /\ [][Next]_vars

\* Two runs, one after the other, on the same inputs.
NextTwice ==
    \/ Next
    \/ Rerun

SpecTwice == Init /\ [][NextTwice]_vars

\* Lines 125 and 172: the parser applied to one address.
ExtractComponents ==
    /\ pc = "parse"
    /\ result' = extract_address_components(parser_source, address)
    /\ pc' = "parsed"
    /\ UNCHANGED <<collector_vars, address, parser_source, load_errors, rerun_vars, buildings_data,
                   open_data, df1, df2, df1_remaining, df2_remaining, merge_results,
                   ids1_all, ids2_all, ids1_street_house, ids2_street_house,
                   ids1_corpus, ids2_corpus, ids1_liter, ids2_liter,
                   df1_only, df2_only, final_merged, combined_df, outcome>>

NextParse == ExtractComponents

SpecParse == InitParse /\ [][NextParse]_vars

\* Tables that carry a free-text address next to any set of native address
\* columns: a null address, an address with a house, and an address with a
\* house, a corpus and a liter.
MaxPrepared == 1

SampleAddresses ==
    {NaN,
     StreetText \o <<",", " ", "2">>,
     StreetText \o <<",", " ", "2", " ", "k", ".", "1", " ", "l", ".", "az">>}

AddressedRows(source_name, columns) ==
    {native @@ ("Adres" :> a) :
        native \in RowsOver(source_name, columns), a \in SampleAddresses}

AddressedTables(source_name, n) ==
    UNION {{Frame(columns \cup {"Adres"}, rows) :
                rows \in [1..n -> AddressedRows(source_name, columns)]} :
              columns \in SUBSET AddrCols}

InitPrepare ==
    /\ \E n1, n2 \in 0..MaxPrepared :
          /\ n1 + n2 <= MaxPrepared
          /\ buildings_data \in AddressedTables("citywalls", n1)
          /\ open_data \in AddressedTables("opendata", n2)
    /\ load_errors = {}
    /\ NothingComputed
    /\ NoParse
    /\ CollectorsIdle

\* The runs on tables with a free-text address.
SpecPrepare == InitPrepare /\ [][Next]_vars

\* The merge asset is not running.
MergeIdle ==
    /\ buildings_data = EmptyFrame
    /\ open_data = EmptyFrame
    /\ load_errors = {}
    /\ EngineIdle
    /\ NoParse

\* ------------------------------------ citywalls_data.py: scrape_street_page
\* Most attempts a caller asks for; the default of line 93 is 3.
MaxRetries == 3

\* What one requests.get of line 103 and the lines after it come to: the request
\* raises (time-out, connection error); the status is not 200; the status is
\* 200 and the parser rejects the markup (lines 111-115 raise); the status is
\* 200 and the page has no house block; it has house blocks, of which none or
\* some can be read (lines 121-189).
Outcomes == {"raises", "not_200", "unparsable", "no_houses", "houses_unread", "houses"}

ReturnedNone == <<"None">>

\* Handling that tries again after a page without houses.
Handling_RetryNoHouses(answer) ==
    CASE answer \in {"raises", "not_200", "unparsable", "no_houses"} -> "retry"
      [] answer = "houses_unread" -> "return []"
      [] answer = "houses" -> "return data"

\* What the body of the loop does with an answer: lines 104-109 and 194-200 try
\* again while attempts remain, lines 117-119 return None, line 192 returns the
\* list of the houses read.
Handling(answer) ==
    CASE answer \in {"raises", "not_200", "unparsable"} -> "retry"
      [] answer = "no_houses" -> "return None"
      [] answer = "houses_unread" -> "return []"
      [] answer = "houses" -> "return data"

InitStreetPage ==
    /\ pc = "request"
    /\ retries \in 0..MaxRetries
    /\ attempt = 0
    /\ http_requests = <<>>
    /\ page_result = NotReturned
    /\ PaginationIdle /\ StreetsIdle /\ DownloadIdle
    /\ MergeIdle

\* Lines 94-109 and 194-200: an attempt that fails.  It is followed by another
\* one while attempt < retries - 1, else the function returns None.
RequestFails ==
    /\ pc = "request"
    /\ attempt < retries
    /\ \E answer \in Outcomes :
          /\ Handling(answer) = "retry"
          /\ http_requests' = Append(http_requests, answer)
    /\ IF attempt < retries - 1
       THEN /\ attempt' = attempt + 1
            /\ UNCHANGED <<pc, page_result>>
       ELSE /\ page_result' = ReturnedNone
            /\ pc' = "returned"
            /\ UNCHANGED attempt
    /\ UNCHANGED <<retries, pagination_vars, streets_vars, download_vars, merge_vars>>

\* Lines 94-103 and 111-192: an attempt whose response is read.
RequestAnswered ==
    /\ pc = "request"
    /\ attempt < retries
    /\ \E answer \in Outcomes :
          /\ Handling(answer) # "retry"
          /\ http_requests' = Append(http_requests, answer)
          /\ page_result' = CASE Handling(answer) = "return None" -> ReturnedNone
                               [] Handling(answer) = "return []" -> <<"[]">>
                               [] Handling(answer) = "return data" -> <<"data">>
    /\ pc' = "returned"
    /\ UNCHANGED <<retries, attempt, pagination_vars, streets_vars, download_vars,
                   merge_vars>>

\* Line 94 with nothing left in range(retries): the function ends without a
\* return statement and gives None.
LoopExhausted ==
    /\ pc = "request"
    /\ attempt >= retries
    /\ page_result' = ReturnedNone
    /\ pc' = "returned"
    /\ UNCHANGED <<retries, attempt, http_requests, pagination_vars, streets_vars,
                   download_vars, merge_vars>>

NextStreetPage ==
    \/ RequestFails
    \/ RequestAnswered
    \/ LoopExhausted

\* One call of scrape_street_page.
SpecStreetPage == InitStreetPage /\ [][NextStreetPage]_vars

\* ------------------------------------ citywalls_data.py: process_pagination
\* Most pages of one street the site is asked for.
MaxPages == 5

\* Line 210.
max_same_size == 3

\* What scrape_street_page hands back for a page: None, or the list of the
\* houses read, a house standing for its address (line 243).
PageLists == {<<>>, <<"x">>, <<"y">>, <<"x", "y">>, <<"y", "x">>}

PageData == {ReturnedNone} \cup PageLists

\* not page_data or len(page_data) == 0
Falsy(page_data) == page_data = ReturnedNone \/ page_data = <<>>

\* set(addresses)
AddressSet(buildings) == {buildings[k] : k \in 1..Len(buildings)}

\* A detection that waits for one repeat more.
LoopDetected_OneMore(addresses_match, count) == addresses_match /\ count > max_same_size

\* Line 248.
LoopDetected(addresses_match, count) == addresses_match /\ count >= max_same_size

\* Lines 255-257: the last pages kept for the comparison.
Remembered(buildings_list, page_data) ==
    LET appended == Append(buildings_list, page_data)
    IN  IF Len(appended) > max_same_size THEN Tail(appended) ELSE appended

InitPagination ==
    /\ pc = "paginate"
    /\ base_url_has_id \in BOOLEAN
    /\ page = 1
    /\ last_buildings = <<>>
    /\ same_size_count = 0
    /\ all_data = <<>>
    /\ fetched = <<>>
    /\ StreetPageIdle /\ StreetsIdle /\ DownloadIdle
    /\ MergeIdle

\* Lines 217-223: no address for a page after the first.
NoStreetId ==
    /\ pc = "paginate"
    /\ page > 1
    /\ ~base_url_has_id
    /\ pc' = "paginated"
    /\ UNCHANGED <<pagination_vars, street_page_vars, streets_vars, download_vars,
                   merge_vars>>

\* Lines 212-267: one turn of the loop that fetches a page.
FetchPage ==
    /\ pc = "paginate"
    /\ page <= MaxPages
    /\ page = 1 \/ base_url_has_id
    /\ \E page_data \in PageData :
          /\ fetched' = Append(fetched, page_data)
          /\ IF Falsy(page_data)
             THEN /\ pc' = "paginated"
                  /\ UNCHANGED <<page, last_buildings, same_size_count, all_data>>
             ELSE LET same_size ==
                          /\ last_buildings # <<>>
                          /\ Len(page_data) = Len(last_buildings[Len(last_buildings)])
                      count == IF same_size THEN same_size_count + 1 ELSE 0
                      addresses_match ==
                          /\ same_size
                          /\ AddressSet(page_data)
                                = AddressSet(last_buildings[Len(last_buildings)])
                  IN  /\ same_size_count' = count
                      /\ IF same_size /\ LoopDetected(addresses_match, count)
                         THEN /\ pc' = "paginated"
                              /\ UNCHANGED <<page, last_buildings, all_data>>
                         ELSE /\ last_buildings' = Remembered(last_buildings, page_data)
                              /\ all_data' = all_data \o page_data
                              /\ page' = page + 1
                              /\ UNCHANGED pc
    /\ UNCHANGED <<base_url_has_id, street_page_vars, streets_vars, download_vars,
                   merge_vars>>

NextPagination ==
    \/ NoStreetId
    \/ FetchPage

\* One call of process_pagination: the loop goes on as long as it can.
SpecPagination == InitPagination /\ [][NextPagination]_vars /\ WF_vars(NextPagination)

\* ------------------------------------ citywalls_data.py: scrape_all_streets
\* Most streets in the index.
MaxStreets == 3

\* config["checkpoint_interval"], small here.
checkpoint_interval == 2

StreetNames == {"s1", "s2", "s3"}

\* The street names get_street_links may return, a name possibly more than once.
Indexes == UNION {[1..n -> StreetNames] : n \in 0..MaxStreets}

\* The checkpoint file that holds a street name, and what resume_scraping reads
\* from it (lines 278-279, 284-288).
CheckpointOf(street_name) == <<street_name>>

\* A resume that never meets its street: every street is passed over.
Skipped_Always(mode, street_name, last) == mode

\* Line 327.
Skipped(mode, street_name, last) == mode /\ CheckpointOf(street_name) # last

InitStreets ==
    /\ pc = "streets"
    /\ street_links \in Indexes
    /\ checkpoint \in {None} \cup {CheckpointOf(name) : name \in StreetNames}
    /\ last_street = None
    /\ resume_mode = FALSE
    /\ street_i = 1
    /\ streets_processed = 0
    /\ scraped = <<>>
    /\ timed_out = FALSE
    /\ StreetPageIdle /\ PaginationIdle /\ DownloadIdle
    /\ MergeIdle

\* Lines 294-318: the checkpoint read, the index fetched; an empty index ends
\* the run.
StartStreets ==
    /\ pc = "streets"
    /\ last_street' = checkpoint
    /\ resume_mode' = (checkpoint # None)
    /\ pc' = IF street_links = <<>> THEN "streets_done" ELSE "street"
    /\ UNCHANGED <<street_links, checkpoint, street_i, streets_processed, scraped,
                   timed_out, street_page_vars, pagination_vars, download_vars,
                   merge_vars>>

\* Lines 321-324: the time limit is over when the loop comes to a street.
TimeLimit ==
    /\ pc = "street"
    /\ street_i <= Len(street_links)
    /\ checkpoint' = CheckpointOf(street_links[street_i])
    /\ timed_out' = TRUE
    /\ pc' = "streets_done"
    /\ UNCHANGED <<street_links, last_street, resume_mode, street_i, streets_processed,
                   scraped, street_page_vars, pagination_vars, download_vars,
                   merge_vars>>

\* Lines 327-328: a street before the checkpointed one.
SkipStreet ==
    /\ pc = "street"
    /\ street_i <= Len(street_links)
    /\ Skipped(resume_mode, street_links[street_i], last_street)
    /\ street_i' = street_i + 1
    /\ UNCHANGED <<pc, street_links, checkpoint, last_street, resume_mode,
                   streets_processed, scraped, timed_out, street_page_vars,
                   pagination_vars, download_vars, merge_vars>>

\* Lines 329-350: the street handed to process_pagination, which returns houses
\* or none; every checkpoint_interval streets with houses the checkpoint is
\* written (the except of lines 346-350 writes the same one).
ScrapeStreet ==
    /\ pc = "street"
    /\ street_i <= Len(street_links)
    /\ ~Skipped(resume_mode, street_links[street_i], last_street)
    /\ resume_mode' = FALSE
    /\ scraped' = Append(scraped, street_i)
    /\ \E street_data \in {<<>>, <<"x">>} :
          IF street_data # <<>>
          THEN /\ streets_processed' = streets_processed + 1
               /\ checkpoint' = IF streets_processed' % checkpoint_interval = 0
                                 THEN CheckpointOf(street_links[street_i])
                                 ELSE checkpoint
          ELSE UNCHANGED <<streets_processed, checkpoint>>
    /\ street_i' = street_i + 1
    /\ UNCHANGED <<pc, street_links, last_street, timed_out, street_page_vars,
                   pagination_vars, download_vars, merge_vars>>

\* Lines 319 and 352: the index is exhausted.
EndStreets ==
    /\ pc = "street"
    /\ street_i > Len(street_links)
    /\ pc' = "streets_done"
    /\ UNCHANGED <<streets_vars, street_page_vars, pagination_vars, download_vars,
                   merge_vars>>

NextStreets ==
    \/ StartStreets
    \/ TimeLimit
    \/ SkipStreet
    \/ ScrapeStreet
    \/ EndStreets

\* One call of scrape_all_streets.
SpecStreets == InitStreets /\ [][NextStreets]_vars

\* ------------------------------- spb_open_data.py: the paginated download
\* Most pages the portal serves.
MaxServerPages == 3

\* config["batch_size"] and config["save_interval"], small here.
batch_size == 2

save_interval == 2

\* The records of page p of the portal: every page but the last is full.
PageSize(p) == IF p = total_pages THEN last_page_size ELSE batch_size

PageRecords(p) == [k \in 1..PageSize(p) |-> <<p, k>>]

\* data.get('next'): the page after p, 0 for none.
NextOf(p) == IF p < total_pages THEN p + 1 ELSE 0

\* The records of the pages 1..k, as a run that was interrupted after page k
\* has saved them (lines 350, 371, 381, 422-425).
SavedPages(k) == Flatten([p \in 1..k |-> PageRecords(p)])

\* Line 238, and line 232 when there is no temporary file.
StartPageOf(saved) == IF saved = None THEN 1 ELSE (Len(saved) \div batch_size) + 1

InitDownload ==
    /\ pc = "download"
    /\ total_pages \in 1..MaxServerPages
    /\ last_page_size \in 1..batch_size
    /\ info_file_ok \in BOOLEAN
    /\ temp_file \in {None} \cup {SavedPages(k) : k \in 1..total_pages}
    /\ all_results = <<>>
    /\ start_page = 1
    /\ page_num = 1
    /\ next_page = 0
    /\ requested = <<>>
    /\ broke_off = FALSE
    /\ df_returned = NotReturned
    /\ StreetPageIdle /\ PaginationIdle /\ StreetsIdle
    /\ MergeIdle

\* Lines 231-353 with the first request answered.  A temporary file that gives
\* start_page > 1 is resumed when the info file can be read (lines 318-322, 333-337):
\* page start_page is requested and its 'next' link kept; else the file is deleted
\* and the download starts afresh (lines 323-330, 339-353).
StartDownload ==
    /\ pc = "download"
    /\ LET resumed == StartPageOf(temp_file) > 1 /\ info_file_ok
           first == IF resumed THEN StartPageOf(temp_file) ELSE 1
       IN  /\ first <= total_pages
           /\ start_page' = first
           /\ page_num' = first
           /\ requested' = <<first>>
           /\ next_page' = NextOf(first)
           /\ IF resumed
              THEN /\ all_results' = temp_file
                   /\ UNCHANGED temp_file
              ELSE /\ all_results' = PageRecords(1)
                   /\ temp_file' = PageRecords(1)
    /\ pc' = "pages"
    /\ UNCHANGED <<total_pages, last_page_size, info_file_ok, broke_off, df_returned,
                   street_page_vars, pagination_vars, streets_vars, merge_vars>>

\* Lines 231-353 with the first request failing for good (a page the portal does
\* not have, or the retries of lines 211-223 used up): lines 419-426 save what
\* was read from the temporary file and return an empty frame.
StartFails ==
    /\ pc = "download"
    /\ LET resumed == StartPageOf(temp_file) > 1 /\ info_file_ok
       IN  /\ start_page' = IF resumed THEN StartPageOf(temp_file) ELSE 1
           /\ all_results' = IF temp_file # None /\ (resumed \/ StartPageOf(temp_file) = 1)
                              THEN temp_file ELSE <<>>
           /\ temp_file' = IF resumed \/ StartPageOf(temp_file) = 1 THEN temp_file ELSE None
    /\ broke_off' = TRUE
    /\ df_returned' = <<>>
    /\ pc' = "downloaded"
    /\ UNCHANGED <<total_pages, last_page_size, info_file_ok, page_num, next_page,
                   requested, street_page_vars, pagination_vars, streets_vars,
                   merge_vars>>

\* Lines 357-374: the page the 'next' link points to is appended, and every
\* save_interval pages the temporary file is written.
NextPage ==
    /\ pc = "pages"
    /\ next_page # 0
    /\ page_num' = page_num + 1
    /\ all_results' = all_results \o PageRecords(next_page)
    /\ requested' = Append(requested, next_page)
    /\ temp_file' = IF page_num' % save_interval = 0 THEN all_results' ELSE temp_file
    /\ next_page' = NextOf(next_page)
    /\ UNCHANGED <<pc, total_pages, last_page_size, info_file_ok, start_page, broke_off,
                   df_returned, street_page_vars, pagination_vars, streets_vars,
                   merge_vars>>

\* Lines 357-362 and 375-400: the request of the next page fails; what is there
\* is saved and page page_num is asked for again, which either succeeds and is
\* appended or ends the loop.
NextPageFails ==
    /\ pc = "pages"
    /\ next_page # 0
    /\ page_num' = page_num + 1
    /\ temp_file' = all_results
    /\ \E retry_ok \in BOOLEAN :
          IF retry_ok /\ page_num' <= total_pages
          THEN /\ all_results' = all_results \o PageRecords(page_num')
               /\ requested' = Append(requested, page_num')
               /\ next_page' = NextOf(page_num')
               /\ UNCHANGED <<pc, broke_off>>
          ELSE /\ broke_off' = TRUE
               /\ pc' = "gave up"
               /\ UNCHANGED <<all_results, requested, next_page>>
    /\ UNCHANGED <<total_pages, last_page_size, info_file_ok, start_page, df_returned,
                   street_page_vars, pagination_vars, streets_vars, merge_vars>>

\* Lines 402-417: the frame built from all_results, the temporary file removed.
FinishDownload ==
    /\ \/ pc = "pages" /\ next_page = 0
       \/ pc = "gave up"
    /\ df_returned' = all_results
    /\ temp_file' = None
    /\ pc' = "downloaded"
    /\ UNCHANGED <<total_pages, last_page_size, info_file_ok, all_results, start_page,
                   page_num, next_page, requested, broke_off, street_page_vars,
                   pagination_vars, streets_vars, merge_vars>>

NextDownload ==
    \/ StartDownload
    \/ StartFails
    \/ NextPage
    \/ NextPageFails
    \/ FinishDownload

\* One download through the API.
SpecDownload == InitDownload /\ [][NextDownload]_vars

\* ------------------------------------------------- vocabulary of the claims
\* The engine has assembled its unified rows (lines 326 and after).
Unified == pc \in {"assemble", "done"} /\ final_merged # Nothing

UnifiedRows == {final_merged.rows[i] : i \in 1..Len(final_merged.rows)}

Id1(row) == Get(row, "id_1", NaN)

Id2(row) == Get(row, "id_2", NaN)

Tag(row) == row["merge_type"][1]

\* A Linked Pair: a row that carries an identifier of each source.
IsLinked(row) == Id1(row) # NaN /\ Id2(row) # NaN

IsResidual1(row) == Id1(row) # NaN /\ Id2(row) = NaN /\ Tag(row) = "tolko_citywalls"

IsResidual2(row) == Id2(row) # NaN /\ Id1(row) = NaN /\ Tag(row) = "tolko_opendata"

LinkedRows == {row \in UnifiedRows : IsLinked(row)}

\* The identifiers of the two sources.
Ids1 == {IdCell(i - 1) : i \in 1..Len(df1.rows)}

Ids2 == {IdCell(i - 1) : i \in 1..Len(df2.rows)}

\* The record of the working copy that carries an identifier.
Rec1(id) == CHOOSE row \in {df1.rows[i] : i \in 1..Len(df1.rows)} : row["id_1"] = id

Rec2(id) == CHOOSE row \in {df2.rows[i] : i \in 1..Len(df2.rows)} : row["id_2"] = id

\* Two records carry equal comparison keys in every column of `cols`.
SameKey(l, r, cols) == \A k \in cols : l[k] = r[k]

\* --------------------------------------------------------------------- C1
\* C1: once the unified rows are assembled, every Source-A identifier is in
\* exactly one of the two categories "some Linked Pair" and "one Source-A residual
\* row" (never in none, never in both), and so is every Source-B identifier.
C1_Partition ==
    Unified =>
        /\ \A id \in Ids1 :
              LET linked == {row \in LinkedRows : Id1(row) = id}
                  residual == {i \in 1..Len(final_merged.rows) :
                                  /\ IsResidual1(final_merged.rows[i])
                                  /\ Id1(final_merged.rows[i]) = id}
              IN  \/ linked # {} /\ residual = {}
                  \/ linked = {} /\ Cardinality(residual) = 1
        /\ \A id \in Ids2 :
              LET linked == {row \in LinkedRows : Id2(row) = id}
                  residual == {i \in 1..Len(final_merged.rows) :
                                  /\ IsResidual2(final_merged.rows[i])
                                  /\ Id2(final_merged.rows[i]) = id}
              IN  \/ linked # {} /\ residual = {}
                  \/ linked = {} /\ Cardinality(residual) = 1
        /\ \A row \in UnifiedRows : IsLinked(row) \/ IsResidual1(row) \/ IsResidual2(row)

\* A run that ends with a Linked Pair and with a residual row next to it.
C1_Witness ==
    /\ pc = "done"
    /\ Unified
    /\ LinkedRows # {}
    /\ \E row \in UnifiedRows : IsResidual1(row)
    /\ Len(df2.rows) > 0

\* --------------------------------------------------------------------- C2
\* The unified rows, by position, that link a given identifier.
PairsOf1(id) ==
    {i \in 1..Len(final_merged.rows) :
        IsLinked(final_merged.rows[i]) /\ Id1(final_merged.rows[i]) = id}

PairsOf2(id) ==
    {i \in 1..Len(final_merged.rows) :
        IsLinked(final_merged.rows[i]) /\ Id2(final_merged.rows[i]) = id}

\* The key columns of the pass that writes a tag.
PassCols(tag) ==
    CASE tag = "po_vsem_polyam" -> merge_cols
      [] tag = "po_ulitse_i_domu" -> street_house_cols
      [] tag = "po_ulitse_domu_korpusu" -> street_house_corpus_cols
      [] tag = "po_ulitse_domu_litere" -> street_house_liter_cols

\* C2 as stated: a Source-A identifier is in at most one Linked Pair, and so is
\* a Source-B identifier, whatever the inputs.
C2_AtMostOnePair ==
    Unified =>
        /\ \A id \in Ids1 : Cardinality(PairsOf1(id)) <= 1
        /\ \A id \in Ids2 : Cardinality(PairsOf2(id)) <= 1

\* C2 as amended: an identifier is in several Linked Pairs only when several
\* records of the other source share the normalized key of the pass that linked
\* it; these pairs are then one per such record, all with the tag of that one pass.
C2_OnePairPerKeyMate ==
    Unified =>
        /\ \A id \in Ids1 : \A i, j \in PairsOf1(id) :
              LET ri == final_merged.rows[i]
                  rj == final_merged.rows[j]
              IN  /\ Tag(ri) = Tag(rj)
                  /\ i # j => Id2(ri) # Id2(rj)
                  /\ SameKey(Rec2(Id2(ri)), Rec2(Id2(rj)), PassCols(Tag(ri)))
                  /\ SameKey(Rec1(id), Rec2(Id2(ri)), PassCols(Tag(ri)))
        /\ \A id \in Ids2 : \A i, j \in PairsOf2(id) :
              LET ri == final_merged.rows[i]
                  rj == final_merged.rows[j]
              IN  /\ Tag(ri) = Tag(rj)
                  /\ i # j => Id1(ri) # Id1(rj)
                  /\ SameKey(Rec1(Id1(ri)), Rec1(Id1(rj)), PassCols(Tag(ri)))
                  /\ SameKey(Rec1(Id1(ri)), Rec2(id), PassCols(Tag(ri)))

\* Two records of Source A with one key, linked to the same Source-B record.
C2_Witness ==
    /\ pc = "done"
    /\ Unified
    /\ \E id \in Ids2 : Cardinality(PairsOf2(id)) = 2

\* --------------------------------------------------------------------- C3
\* Every row the passes and the residual step have produced so far.
ProducedRows ==
    UNION {{merge_results[k].rows[i] : i \in 1..Len(merge_results[k].rows)} :
              k \in 1..Len(merge_results)}

\* C3: once pass 1 has run, a pair that agrees on the pass-1 keys is a Linked
\* Pair tagged po_vsem_polyam, neither record is in the candidate pool of pass 2
\* or of a later pass, and no row with another tag ever carries either record.
C3_Precedence ==
    (pc \in {"pass2", "pass3", "pass4", "residual", "assemble", "done"} /\ Pass1Runs) =>
        \A a \in Ids1, b \in Ids2 :
            SameKey(Rec1(a), Rec2(b), merge_cols) =>
                /\ \E row \in ProducedRows :
                      Id1(row) = a /\ Id2(row) = b /\ Tag(row) = "po_vsem_polyam"
                /\ a \notin ColumnSet(df1_remaining, "id_1")
                /\ b \notin ColumnSet(df2_remaining, "id_2")
                /\ \A row \in ProducedRows :
                      (Id1(row) = a \/ Id2(row) = b) => Tag(row) = "po_vsem_polyam"

\* All four keys in both sources; one pair agrees on all of them, and a second
\* Source-B record agrees with the Source-A record on street and house only: it
\* ends as a residual row.
C3_Witness ==
    /\ pc = "done"
    /\ Unified
    /\ Cardinality(merge_cols) = 4
    /\ \E a \in Ids1, b, b2 \in Ids2 :
          /\ SameKey(Rec1(a), Rec2(b), merge_cols)
          /\ SameKey(Rec1(a), Rec2(b2), street_house_cols)
          /\ ~SameKey(Rec1(a), Rec2(b2), merge_cols)
          /\ \E row \in UnifiedRows : IsResidual2(row) /\ Id2(row) = b2

\* --------------------------------------------------------------------- C4
\* Both sources have a street and a house column.
StreetAndHouseInBoth == street_house_cols = {"Ulitsa_clean", "Dom_clean"}

LinkedWithTag(a, b, tags) ==
    \E row \in UnifiedRows : Id1(row) = a /\ Id2(row) = b /\ Tag(row) \in tags

\* C4: when Source A has a corpus column and Source B has none (both have street
\* and house), pass 1 and pass 3 emit no pair, and every pair that agrees on
\* street and house is linked by pass 2 and tagged po_ulitse_i_domu.
C4_SkippedWithoutCorpus ==
    (/\ Unified
     /\ "Korpus" \in buildings_data.columns
     /\ "Korpus" \notin open_data.columns
     /\ StreetAndHouseInBoth) =>
        /\ \A row \in UnifiedRows :
              Tag(row) \notin {"po_vsem_polyam", "po_ulitse_domu_korpusu"}
        /\ \A a \in Ids1, b \in Ids2 :
              SameKey(Rec1(a), Rec2(b), street_house_cols) =>
                  LinkedWithTag(a, b, {"po_ulitse_i_domu"})

\* --------------------------------------------------------------------- C5
NoCorpusNoLiterInB ==
    "Korpus" \notin open_data.columns /\ "Litera" \notin open_data.columns

\* The frames the passes have appended: a merged frame has both id columns.
PassFrames ==
    {k \in 1..Len(merge_results) : {"id_1", "id_2"} \subseteq merge_results[k].columns}

Passes3And4NeverRan ==
    /\ Cardinality(PassFrames) <= 2
    /\ \A row \in ProducedRows :
          Tag(row) \notin {"po_ulitse_domu_korpusu", "po_ulitse_domu_litere"}

IsResidualId1(a) == \E row \in UnifiedRows : IsResidual1(row) /\ Id1(row) = a

IsResidualId2(b) == \E row \in UnifiedRows : IsResidual2(row) /\ Id2(row) = b

\* C5 as stated: with no corpus and no liter column in Source B, passes 3 and 4
\* never execute and every pair that agrees on street and house (what passes 3
\* and 4 would need) ends as two residual rows.
C5_EligibleEndResidual ==
    (Unified /\ NoCorpusNoLiterInB) =>
        /\ Passes3And4NeverRan
        /\ StreetAndHouseInBoth =>
              \A a \in Ids1, b \in Ids2 :
                  SameKey(Rec1(a), Rec2(b), street_house_cols) =>
                      IsResidualId1(a) /\ IsResidualId2(b)

\* C5 as amended: with no corpus and no liter column in Source B, passes 3 and 4
\* never execute, and a pair that agrees on street and house is not residual: an
\* earlier pass (1 or 2) has linked it.
C5_EligibleLinkedEarlier ==
    (pc \in {"residual", "assemble", "done"} /\ NoCorpusNoLiterInB) =>
        /\ Passes3And4NeverRan
        /\ (Unified /\ StreetAndHouseInBoth) =>
              \A a \in Ids1, b \in Ids2 :
                  SameKey(Rec1(a), Rec2(b), street_house_cols) =>
                      /\ LinkedWithTag(a, b, {"po_vsem_polyam", "po_ulitse_i_domu"})
                      /\ ~IsResidualId1(a)
                      /\ ~IsResidualId2(b)

\* Source A has a corpus and a liter column, Source B has neither, and a pair
\* agrees on street and house.
C5_Witness ==
    /\ pc = "done"
    /\ Unified
    /\ NoCorpusNoLiterInB
    /\ {"Korpus", "Litera"} \subseteq buildings_data.columns
    /\ StreetAndHouseInBoth
    /\ \E a \in Ids1, b \in Ids2 : SameKey(Rec1(a), Rec2(b), street_house_cols)

\* --------------------------------------------------------------------- C6
\* The display address of a prepared record.
DisplayOf(rec) ==
    LET street == Get(rec, "Ulitsa", <<>>)
        house == Get(rec, "Dom", <<>>)
        liter == Get(rec, "Litera", <<>>)
        corpus == Get(rec, "Korpus", <<>>)
    IN  Strip(street \o <<",", " ">> \o house
              \o (IF liter # <<>> THEN <<" ", "l", "i", "t", ".">> \o liter ELSE <<>>)
              \o (IF corpus # <<>> THEN <<" ", "k", "o", "r", "p", ".">> \o corpus ELSE <<>>))

\* The unified set is one residual row per record of `df`, in order, each with
\* the tag and the display address of its record.
AllResidual(df, tag) ==
    /\ outcome = "returned"
    /\ Len(combined_df.rows) = Len(df.rows)
    /\ \A i \in 1..Len(df.rows) :
          /\ Tag(combined_df.rows[i]) = tag
          /\ combined_df.rows[i]["normalized_address"] = DisplayOf(df.rows[i])

\* C6: a run with exactly one empty source ends with no Linked Pair and one
\* residual row, with its display address, for each record of the other source;
\* a run with two empty sources returns an empty unified set.
C6_EmptySource ==
    pc = "done" =>
        /\ (IsEmpty(buildings_data) /\ IsEmpty(open_data)) =>
              outcome = "returned" /\ combined_df = EmptyFrame
        /\ (~IsEmpty(buildings_data) /\ IsEmpty(open_data)) =>
              AllResidual(df1, "tolko_citywalls")
        /\ (IsEmpty(buildings_data) /\ ~IsEmpty(open_data)) =>
              AllResidual(df2, "tolko_opendata")

\* --------------------------------------------------------------------- C7
\* C7: the engine returns a unified set for every pair of input tables; it never
\* raises.
C7_NeverRaises == outcome # "raised"

\* --------------------------------------------------------------------- C8
NonEmpty(v) == v # NaN /\ v # <<>>

\* C8: in every unified row each coalesced address field is the Source-A value
\* when that is non-empty, and the Source-B value when the Source-A value is
\* empty and the Source-B value is not.
C8_PreferNonEmptyA ==
    (pc = "done" /\ outcome = "returned") =>
        \A i \in 1..Len(combined_df.rows) : \A col \in AddrCols :
            LET row == combined_df.rows[i]
                a == Get(row, col \o "_citywalls", NaN)
                b == Get(row, col \o "_opendata", NaN)
            IN  col \in DOMAIN row =>
                    /\ NonEmpty(a) => row[col] = a
                    /\ (~NonEmpty(a) /\ NonEmpty(b)) => row[col] = b

\* --------------------------------------------------------------------- C9
\* A character that is a letter of some alphabet or a digit.
IsAlnum(ch) == ch \in Letters \cup Digits

\* A string with its case folded and everything but letters and digits left out.
Folded(s) == [i \in 1..Len(SelectSeq(s, IsAlnum)) |-> LowerChar(SelectSeq(s, IsAlnum)[i])]

\* Two records differ at most in punctuation, letter case and whitespace of the
\* address components that both sources have.
DifferOnlyInForm(l, r) ==
    \A col \in AddrCols :
        CleanCol(col) \in merge_cols => Folded(l[col]) = Folded(r[col])

\* C9: once pass 1 has run, a Source-A and a Source-B record that differ only in
\* punctuation, case or whitespace have equal key tuples, are a Linked Pair
\* tagged po_vsem_polyam, and neither is left in the unmatched sets.
C9_FormCollapses ==
    (pc \in {"pass2", "pass3", "pass4", "residual", "assemble", "done"} /\ Pass1Runs) =>
        \A a \in Ids1, b \in Ids2 :
            DifferOnlyInForm(Rec1(a), Rec2(b)) =>
                /\ SameKey(Rec1(a), Rec2(b), merge_cols)
                /\ \E row \in ProducedRows :
                      Id1(row) = a /\ Id2(row) = b /\ Tag(row) = "po_vsem_polyam"
                /\ a \notin ColumnSet(df1_remaining, "id_1")
                /\ b \notin ColumnSet(df2_remaining, "id_2")
                /\ Unified => ~IsResidualId1(a) /\ ~IsResidualId2(b)

\* The streets of a pair differ in case, blanks and punctuation, all four
\* components are compared, and the run has ended.
C9_Witness ==
    /\ pc = "done"
    /\ Unified
    /\ Cardinality(merge_cols) = 4
    /\ \E a \in Ids1, b \in Ids2 :
          /\ DifferOnlyInForm(Rec1(a), Rec2(b))
          /\ Rec1(a)["Ulitsa"] # Rec2(b)["Ulitsa"]

\* -------------------------------------------------------------------- C10
\* C10: the comparison key of a component is its lower-cased text with every
\* character that is neither a letter (of any alphabet) nor a digit removed, so
\* every letter and every digit of the component is kept.
C10_KeyKeepsLettersAndDigits ==
    \A i \in 1..Len(df1.rows) : \A col \in AddrCols :
        col \in df1.columns => df1.rows[i][CleanCol(col)] = Folded(df1.rows[i][col])

RowsTagged(tag) ==
    Cardinality({i \in 1..Len(combined_df.rows) : Tag(combined_df.rows[i]) = tag})

\* C12: whenever the statistics are computed, total is the number of unified
\* rows, each of the four pass counters is the number of unified rows tagged with
\* that pass, and citywalls_only / opendata_only are the numbers of residual rows
\* of Source A / Source B.
C12_StatsAgree ==
    StatsComputed =>
        /\ stats.total = Len(combined_df.rows)
        /\ stats.by_all = RowsTagged("po_vsem_polyam")
        /\ stats.by_street_house = RowsTagged("po_ulitse_i_domu")
        /\ stats.by_corpus = RowsTagged("po_ulitse_domu_korpusu")
        /\ stats.by_liter = RowsTagged("po_ulitse_domu_litere")
        /\ stats.citywalls_only = RowsTagged("tolko_citywalls")
        /\ stats.opendata_only = RowsTagged("tolko_opendata")

\* -------------------------------------------------------------------- C13
\* C13: when the load of a source has failed, the run stops at the load: it
\* goes on neither to the preparation nor to the passes with the other source,
\* and it returns no unified output.
C13_LoadFailureAborts ==
    load_errors # {} => (pc = "load" /\ outcome # "returned")

\* -------------------------------------------------------------------- C14
\* A coalesced field as text: a missing field is empty.
FieldText(row, col) ==
    LET v == Get(row, col, <<>>) IN IF v = NaN THEN <<>> ELSE v

\* '<street>, <house>', then ' lit.<liter>' iff the liter is non-empty, then
\* ' korp.<corpus>' iff the corpus is non-empty.
ClaimedAddress(row) ==
    LET liter == FieldText(row, "Litera")
        corpus == FieldText(row, "Korpus")
    IN  FieldText(row, "Ulitsa") \o <<",", " ">> \o FieldText(row, "Dom")
            \o (IF liter # <<>> THEN <<" ", "l", "i", "t", ".">> \o liter ELSE <<>>)
            \o (IF corpus # <<>> THEN <<" ", "k", "o", "r", "p", ".">> \o corpus ELSE <<>>)

\* C14: the display address of every returned unified row is, up to blanks at
\* its ends, '<street>, <house>' followed by the liter clause iff the coalesced
\* liter is non-empty and then by the corpus clause iff the coalesced corpus is
\* non-empty.
C14_DisplayAddress ==
    (pc = "done" /\ outcome = "returned") =>
        \A i \in 1..Len(combined_df.rows) :
            combined_df.rows[i]["normalized_address"] = Strip(ClaimedAddress(combined_df.rows[i]))

\* -------------------------------------------------------------------- C15
\* Every row produced so far, in the order of production.
ProducedSeq == Flatten([k \in 1..Len(merge_results) |-> merge_results[k].rows])

PassTagsInOrder ==
    <<"po_vsem_polyam", "po_ulitse_i_domu", "po_ulitse_domu_korpusu", "po_ulitse_domu_litere">>

\* Pass n has executed (it was not skipped and the run is past it).
PassExecuted(n) ==
    CASE n = 1 -> Pass1Runs /\ pc \in {"pass2", "pass3", "pass4", "residual", "assemble", "done"}
      [] n = 2 -> Pass2Runs /\ pc \in {"pass3", "pass4", "residual", "assemble", "done"}
      [] n = 3 -> Pass3Runs /\ pc \in {"pass4", "residual", "assemble", "done"}
      [] n = 4 -> Pass4Runs /\ pc \in {"residual", "assemble", "done"}

\* The identifiers still unmatched when pass n started: those in no pair of an
\* earlier pass.
Unmatched1Before(n) ==
    Ids1 \ {Id1(row) : row \in {r \in ProducedRows :
                                    \E m \in 1..(n - 1) : Tag(r) = PassTagsInOrder[m]}}

Unmatched2Before(n) ==
    Ids2 \ {Id2(row) : row \in {r \in ProducedRows :
                                    \E m \in 1..(n - 1) : Tag(r) = PassTagsInOrder[m]}}

\* The positions of the pairs of pass n whose Source-A record has the key of b.
GroupPairs(n, b) ==
    {k \in 1..Len(ProducedSeq) :
        /\ Tag(ProducedSeq[k]) = PassTagsInOrder[n]
        /\ SameKey(Rec1(Id1(ProducedSeq[k])), Rec2(b), PassCols(PassTagsInOrder[n]))}

GroupSize1(n, b) ==
    Cardinality({a \in Unmatched1Before(n) :
                    SameKey(Rec1(a), Rec2(b), PassCols(PassTagsInOrder[n]))})

GroupSize2(n, b) ==
    Cardinality({b2 \in Unmatched2Before(n) :
                    SameKey(Rec2(b2), Rec2(b), PassCols(PassTagsInOrder[n]))})

\* C15: a pass that has executed joined the two unmatched sets as they stood
\* when it started: for every key group, N unmatched Source-A records sharing
\* the pass key with M unmatched Source-B records, it emitted exactly N x M
\* pairs, one for each combination, and every pair of the pass is tagged with
\* the pass and joins two records that were unmatched and agree on the key.
C15_CrossProductPerPass ==
    \A n \in 1..4 : PassExecuted(n) =>
        /\ \A b \in Unmatched2Before(n) :
              /\ Cardinality(GroupPairs(n, b)) = GroupSize1(n, b) * GroupSize2(n, b)
              /\ \A a \in Unmatched1Before(n) :
                    SameKey(Rec1(a), Rec2(b), PassCols(PassTagsInOrder[n])) =>
                        Cardinality({k \in GroupPairs(n, b) :
                                        /\ Id1(ProducedSeq[k]) = a
                                        /\ Id2(ProducedSeq[k]) = b}) = 1
        /\ \A k \in 1..Len(ProducedSeq) :
              Tag(ProducedSeq[k]) = PassTagsInOrder[n] =>
                  /\ Id1(ProducedSeq[k]) \in Unmatched1Before(n)
                  /\ Id2(ProducedSeq[k]) \in Unmatched2Before(n)
                  /\ SameKey(Rec1(Id1(ProducedSeq[k])), Rec2(Id2(ProducedSeq[k])),
                             PassCols(PassTagsInOrder[n]))

\* Pass 2 has linked one Source-A record with two Source-B records of one key
\* that pass 1 had left unmatched.
C15_Witness ==
    /\ pc = "done"
    /\ PassExecuted(1) /\ PassExecuted(2)
    /\ \E b \in Unmatched2Before(2) :
          /\ GroupSize1(2, b) = 1
          /\ GroupSize2(2, b) = 2
          /\ Cardinality(GroupPairs(2, b)) = 2

\* -------------------------------------------------------------------- C16
RowSet(df) == {df.rows[i] : i \in 1..Len(df.rows)}

PassPc == <<"pass1", "pass2", "pass3", "pass4">>

PassRuns(n) ==
    CASE n = 1 -> Pass1Runs
      [] n = 2 -> Pass2Runs
      [] n = 3 -> Pass3Runs
      [] n = 4 -> Pass4Runs

\* C16: the step of a pass leaves as unmatched exactly the records that were
\* unmatched before it and are in no pair the pass has emitted (before pass 1
\* every record is unmatched); a skipped pass emits nothing and leaves both
\* unmatched sets as they were.
C16_RemovesExactlyMatched ==
    [][\A n \in 1..4 : pc = PassPc[n] =>
          LET before1 == IF n = 1 THEN df1 ELSE df1_remaining
              before2 == IF n = 1 THEN df2 ELSE df2_remaining
              emitted ==
                  UNION {RowSet(merge_results'[k]) :
                            k \in (Len(merge_results) + 1)..Len(merge_results')}
              matched1 == {Id1(row) : row \in emitted}
              matched2 == {Id2(row) : row \in emitted}
          IN  /\ RowSet(df1_remaining') = {row \in RowSet(before1) : row["id_1"] \notin matched1}
              /\ RowSet(df2_remaining') = {row \in RowSet(before2) : row["id_2"] \notin matched2}
              /\ Len(df1_remaining'.rows) = Cardinality(RowSet(df1_remaining'))
              /\ Len(df2_remaining'.rows) = Cardinality(RowSet(df2_remaining'))
              /\ ~PassRuns(n) =>
                    /\ merge_results' = merge_results
                    /\ df1_remaining' = before1
                    /\ df2_remaining' = before2
      ]_vars

\* Pass 2 has matched one Source-A record and left another one unmatched.
C16_Witness ==
    /\ pc = "pass3"
    /\ ids1_street_house # {}
    /\ Len(df1_remaining.rows) > 0
    /\ Len(df1_remaining.rows) < Len(df1.rows) - Cardinality(ids1_all)

\* -------------------------------------------------------------------- C17
\* C17: in every unified row each original field of the Source-A record it
\* carries stands in the column <field>_citywalls, each original field of the
\* Source-B record it carries in <field>_opendata, linked row or residual row
\* alike, and a residual row holds null in every namespaced column of the
\* counterpart source.
C17_UniformNamespacedSchema ==
    Unified =>
        \A row \in UnifiedRows :
            /\ Id1(row) # NaN =>
                  \A c \in buildings_data.columns :
                      Get(row, c \o "_citywalls", NaN) = Rec1(Id1(row))[c]
            /\ Id2(row) # NaN =>
                  \A c \in open_data.columns :
                      Get(row, c \o "_opendata", NaN) = Rec2(Id2(row))[c]
            /\ Id1(row) = NaN =>
                  \A c \in buildings_data.columns : Get(row, c \o "_citywalls", NaN) = NaN
            /\ Id2(row) = NaN =>
                  \A c \in open_data.columns : Get(row, c \o "_opendata", NaN) = NaN

\* -------------------------------------------------------------------- C18
AllowedTags ==
    {"po_vsem_polyam", "po_ulitse_i_domu", "po_ulitse_domu_korpusu",
     "po_ulitse_domu_litere", "tolko_citywalls", "tolko_opendata"}

\* The identifiers the engine recorded for pass n.
PassIds1(n) == <<ids1_all, ids1_street_house, ids1_corpus, ids1_liter>>[n]

PassIds2(n) == <<ids2_all, ids2_street_house, ids2_corpus, ids2_liter>>[n]

\* C18: every unified row carries one tag, one of the six allowed values: a
\* linked row the name of the pass that emitted it, a row of a Source-A record
\* alone tolko_citywalls, a row of a Source-B record alone tolko_opendata; the
\* returned rows carry these tags.
C18_OneProvenanceTag ==
    Unified =>
        /\ \A row \in UnifiedRows :
              /\ "merge_type" \in DOMAIN row
              /\ Len(row["merge_type"]) = 1
              /\ Tag(row) \in AllowedTags
              /\ Id1(row) # NaN \/ Id2(row) # NaN
              /\ (Id1(row) # NaN /\ Id2(row) # NaN) =>
                    \E n \in 1..4 :
                        /\ Tag(row) = PassTagsInOrder[n]
                        /\ PassExecuted(n)
                        /\ Id1(row) \in PassIds1(n)
                        /\ Id2(row) \in PassIds2(n)
              /\ (Id1(row) # NaN /\ Id2(row) = NaN) => Tag(row) = "tolko_citywalls"
              /\ (Id1(row) = NaN /\ Id2(row) # NaN) => Tag(row) = "tolko_opendata"
        /\ (pc = "done" /\ outcome = "returned") =>
              /\ Len(combined_df.rows) = Len(final_merged.rows)
              /\ \A i \in 1..Len(combined_df.rows) :
                    combined_df.rows[i]["merge_type"] = final_merged.rows[i]["merge_type"]

\* A returned unified set with a pair linked by pass 2 and a residual row.
C18_Witness ==
    /\ pc = "done"
    /\ outcome = "returned"
    /\ Unified
    /\ \E i, j \in 1..Len(combined_df.rows) :
          /\ Tag(combined_df.rows[i]) = "po_ulitse_i_domu"
          /\ Tag(combined_df.rows[j]) \in {"tolko_citywalls", "tolko_opendata"}

\* -------------------------------------------------------------------- C19
\* The text has a comma, or a blank directly before a digit.
HasSplitPoint(s) ==
    \E i \in 1..Len(s) :
        \/ s[i] = ","
        \/ s[i] \in Whitespace /\ i < Len(s) /\ s[i + 1] \in Digits

AllEmpty(r) == \A c \in AddrCols : r[c] = <<>>

\* C19: the parser returns four components, each a string, for every address;
\* a null or empty address gives four empty components; a text with no comma
\* and no blank before a digit gives the whole text (trimmed, for the open-data
\* source after its city prefix) as street and the other three empty; a house
\* part that does not start with a digit token gives an empty house.
C19_ParserDefaults ==
    pc = "parsed" =>
        /\ DOMAIN result = AddrCols
        /\ \A c \in AddrCols : result[c] # NaN
        /\ address \in {NaN, <<>>} => AllEmpty(result)
        /\ (address \notin {NaN, <<>>} /\ ~HasSplitPoint(address)) =>
              /\ parser_source = "citywalls" => result.Ulitsa = Strip(address)
              /\ parser_source = "opendata" => result.Ulitsa = StripCityPrefix(Strip(address))
              /\ result.Dom = <<>> /\ result.Korpus = <<>> /\ result.Litera = <<>>
        /\ \A hp \in DigitlessHouseParts :
              address = StreetText \o <<",", " ">> \o hp =>
                  result.Ulitsa = StreetText /\ result.Dom = <<>>

\* 'ул, корп. 2' parsed: the street and the corpus are found, the house is empty.
C19_Witness ==
    /\ pc = "parsed"
    /\ address = StreetText \o <<",", " ", "k", "o", "r", "p", ".", " ", "2">>
    /\ result.Ulitsa = StreetText
    /\ result.Dom = <<>>
    /\ result.Korpus = <<"2">>

\* -------------------------------------------------------------------- C20
\* C20: for a house part with a liter marker followed by a token X and a corpus
\* marker followed by a token Y, in either order, the parser returns liter = X
\* and corpus = Y.
C20_MarkersIndependent ==
    pc = "parsed" =>
        \A f \in BOOLEAN, lm \in LiterMarkers, lg \in Gaps, X \in LiterTokens,
           csep \in ClauseSeparators, cm \in CorpusMarkers, cg \in Gaps, Y \in CorpusTokens :
            address = TwoClauseAddress(f, lm, lg, X, csep, cm, cg, Y) =>
                result.Litera = X /\ result.Korpus = Y

CorpusAndLiterTags == {"po_ulitse_domu_korpusu", "po_ulitse_domu_litere"}

\* C22: passes 3 and 4 never link anything: at every point of a run the
\* identifier sets of both passes are empty and no row carries either of their
\* tags, and the statistics report by_corpus = 0 and by_liter = 0.
C22_Passes3And4EmitNothing ==
    /\ ids1_corpus = {} /\ ids2_corpus = {}
    /\ ids1_liter = {} /\ ids2_liter = {}
    /\ \A row \in ProducedRows : Tag(row) \notin CorpusAndLiterTags
    /\ Unified => \A row \in UnifiedRows : Tag(row) \notin CorpusAndLiterTags
    /\ StatsComputed => stats.by_corpus = 0 /\ stats.by_liter = 0

\* A finished run in which passes 3 and 4 both executed on pools that held a
\* record of each source.
C22_Witness ==
    /\ StatsComputed
    /\ PassExecuted(3) /\ PassExecuted(4)
    /\ ~IsEmpty(df1_remaining) /\ ~IsEmpty(df2_remaining)

\* -------------------------------------------------------------------- C23
LinkedProduced == {row \in ProducedRows : IsLinked(row)}

\* C23: an identifier is linked in at most one pass: all Linked Pairs of one
\* Source-A identifier, and all Linked Pairs of one Source-B identifier, carry
\* the same tag, and the identifier sets the engine records for different
\* passes are pairwise disjoint.
C23_LinkedInOnePass ==
    /\ \A r1, r2 \in LinkedProduced :
          (Id1(r1) = Id1(r2) \/ Id2(r1) = Id2(r2)) => Tag(r1) = Tag(r2)
    /\ \A n, m \in 1..4 :
          n # m => /\ PassIds1(n) \cap PassIds1(m) = {}
                   /\ PassIds2(n) \cap PassIds2(m) = {}

\* A finished run in which pass 1 and pass 2 both executed and one identifier
\* has two Linked Pairs, made by pass 2.
C23_Witness ==
    /\ pc = "done"
    /\ PassExecuted(1) /\ PassExecuted(2)
    /\ \E r1, r2 \in LinkedProduced :
          /\ r1 # r2
          /\ Id1(r1) = Id1(r2) \/ Id2(r1) = Id2(r2)
          /\ Tag(r1) = "po_ulitse_i_domu"

\* -------------------------------------------------------------------- C24
\* Every comparison key of the record that takes part in pass 1 is empty.
AllKeysEmpty(rec) == \A k \in merge_cols : rec[k] = <<>>

\* C24: an empty comparison key is a value like any other: once pass 1, the
\* first pass executed, has run, a Source-A record and a Source-B record whose
\* keys in the columns of the pass are all empty are a Linked Pair tagged
\* po_vsem_polyam, and no residual row carries either of them.
C24_EmptyKeysLinked ==
    PassExecuted(1) =>
        \A a \in Ids1, b \in Ids2 :
            (AllKeysEmpty(Rec1(a)) /\ AllKeysEmpty(Rec2(b))) =>
                /\ \E row \in ProducedRows :
                      Id1(row) = a /\ Id2(row) = b /\ Tag(row) = "po_vsem_polyam"
                /\ \A row \in ProducedRows :
                      (Id1(row) = a \/ Id2(row) = b) => Tag(row) = "po_vsem_polyam"

\* A finished run with a record on each side all of whose pass-1 keys are empty.
C24_Witness ==
    /\ pc = "done"
    /\ PassExecuted(1)
    /\ \E a \in Ids1, b \in Ids2 : AllKeysEmpty(Rec1(a)) /\ AllKeysEmpty(Rec2(b))

\* -------------------------------------------------------------------- C25
\* C25: whenever the statistics are computed, the Source-A counters account for
\* every Source-A record once: by_all + by_street_house + by_corpus + by_liter +
\* citywalls_only is the number of Source-A records, each pass counter being the
\* number of distinct Source-A identifiers linked in that pass.
C25_SourceAAccounted ==
    StatsComputed =>
        /\ stats.by_all + stats.by_street_house + stats.by_corpus + stats.by_liter
                + stats.citywalls_only = Len(buildings_data.rows)
        /\ \A n \in 1..4 :
              <<stats.by_all, stats.by_street_house, stats.by_corpus, stats.by_liter>>[n]
                  = Cardinality({Id1(row) : row \in {r \in LinkedProduced :
                                                        Tag(r) = PassTagsInOrder[n]}})

\* Statistics computed in a run that linked one Source-A record and left
\* another as a residual.
C25_Witness ==
    /\ StatsComputed
    /\ Len(buildings_data.rows) = 2
    /\ stats.by_all + stats.by_street_house = 1
    /\ stats.citywalls_only = 1

\* -------------------------------------------------------------------- C30
\* The engine has its working copies.
Prepared == pc # "load" /\ df1 # Nothing /\ df2 # Nothing

\* The working copy keeps, in every native component column, the cleaned-up
\* value of the table, and holds in every other component column it has the
\* cleaned-up value parsed from the free-text address.
NativeKept(table, working, source_name) ==
    \A i \in 1..Len(table.rows) :
        \A col \in AddrCols :
            /\ col \in table.columns =>
                  working.rows[i][col] = PrepareValue(col, table.rows[i][col])
            /\ (col \in working.columns /\ col \notin table.columns) =>
                  working.rows[i][col] =
                      PrepareValue(col,
                          extract_address_components(source_name,
                                                     table.rows[i]["Adres"])[col])

ParsedDiffers(table, working, source_name) ==
    \E i \in 1..Len(table.rows) :
        /\ \E col \in AddrCols : col \in working.columns /\ col \notin table.columns
        /\ \E col \in AddrCols :
              /\ col \in table.columns
              /\ LET parsed == extract_address_components(source_name,
                                                          table.rows[i]["Adres"])[col]
                 IN  parsed # <<>> /\ PrepareValue(col, parsed) # working.rows[i][col]

Status200 == {"unparsable", "no_houses", "houses_unread", "houses"}

Failure == {"raises", "not_200", "unparsable"}

\* At most `retries` requests; a request is followed by another one only when it
\* failed and an attempt remained; the function returns None after the last
\* attempt failed, and the houses, or None for a page without houses, once a
\* response is read.
RetriesRespected ==
    /\ Len(http_requests) <= retries
    /\ \A k \in 1..Len(http_requests) :
          (k < Len(http_requests) \/ pc = "request") =>
              http_requests[k] \in Failure /\ k < retries
    /\ (pc = "returned" /\ http_requests # <<>>) =>
          LET last == http_requests[Len(http_requests)]
          IN  /\ last \in Failure =>
                    Len(http_requests) = retries /\ page_result = ReturnedNone
              /\ last = "no_houses" => page_result = ReturnedNone
              /\ last \in {"houses", "houses_unread"} => page_result \in {<<"data">>, <<"[]">>}
    /\ (pc = "returned" /\ http_requests = <<>>) =>
          retries = 0 /\ page_result = ReturnedNone

\* C29, as stated: at most `retries` requests per URL, a failure retried only
\* while attempts remain and None after the last, and a response with status
\* 200 never followed by another request.
C29_Status200NeverRetried ==
    /\ RetriesRespected
    /\ \A k \in 1..Len(http_requests) :
          http_requests[k] \in Status200 => k = Len(http_requests) /\ pc = "returned"

\* C29, amended: at most `retries` requests per URL, a failure retried only
\* while attempts remain and None after the last; a response with status 200
\* is followed by another request only if reading it raised, which counts as a
\* failure like any other.
C29_AtMostRetriesRequests ==
    /\ RetriesRespected
    /\ \A k \in 1..Len(http_requests) :
          (http_requests[k] \in Status200 /\ http_requests[k] # "unparsable") =>
              k = Len(http_requests) /\ pc = "returned"

\* A call with three attempts that used them all: a status other than 200, a
\* request that raised, and a page whose houses were returned.
C29_Witness ==
    /\ pc = "returned"
    /\ retries = 3
    /\ http_requests = <<"not_200", "raises", "houses">>
    /\ page_result = <<"data">>

\* -------------------------------------------------------------------- C28
\* The site has answered every page asked for so far with one and the same
\* non-empty list, and a page after the first can be asked for.
SameAnswers ==
    /\ base_url_has_id
    /\ \A k \in 1..Len(fetched) : ~Falsy(fetched[k]) /\ fetched[k] = fetched[1]

FourFetchesAtMost ==
    /\ SameAnswers =>
          /\ Len(fetched) <= 4
          /\ pc = "paginated" <=> Len(fetched) = 4
    /\ \A k \in 1..Len(fetched) :
          Falsy(fetched[k]) => k = Len(fetched) /\ pc = "paginated"

\* C28: when the site answers every page with the same non-empty list,
\* process_pagination stops, and it stops with the 4th fetch, no sooner and no
\* later; and a page that yields no data is the last page fetched.
C28_StopsAfterFourFetches ==
    /\ []FourFetchesAtMost
    /\ []SameAnswers => <>(pc = "paginated")

\* Four fetches of the same two houses, the detection having stopped the loop
\* with three pages collected.
C28_Witness ==
    /\ pc = "paginated"
    /\ fetched = <<(<<"x", "y">>), (<<"x", "y">>), (<<"x", "y">>), (<<"x", "y">>)>>
    /\ same_size_count = 3
    /\ Len(all_data) = 6

\* -------------------------------------------------------------------- C26
\* The run has read a checkpoint.
Resumed == pc \in {"street", "streets_done"} /\ last_street # None

\* The street at position k has been handed to process_pagination.
WasScraped(k) == \E m \in 1..Len(scraped) : scraped[m] = k

\* The street at position k is the checkpointed street or comes after it.
AtOrAfterCheckpoint(k) ==
    \E j \in 1..k : CheckpointOf(street_links[j]) = last_street

\* C26: in a run that found a checkpoint, a street the loop has gone past is
\* scraped if and only if it is the checkpointed street or comes after it in
\* index order; nothing else is scraped, no street twice; and but for the time
\* limit the loop goes past every street of the index.
C26_ResumeFromCheckpoint ==
    Resumed =>
        /\ \A k \in 1..Len(street_links) :
              /\ k < street_i => (WasScraped(k) <=> AtOrAfterCheckpoint(k))
              /\ k >= street_i => ~WasScraped(k)
        /\ \A m, n \in 1..Len(scraped) : m < n => scraped[m] < scraped[n]
        /\ (pc = "streets_done" /\ ~timed_out) => street_i = Len(street_links) + 1

\* A finished run on an index of three streets with the second one as the
\* checkpoint: the first is skipped, the second and the third are scraped.
C26_Witness ==
    /\ pc = "streets_done" /\ ~timed_out
    /\ street_links = <<"s1", "s2", "s3">>
    /\ last_street = CheckpointOf("s2")
    /\ scraped = <<2, 3>>

\* -------------------------------------------------------------------- C27
\* The frame returned holds record k of page p.
Delivered(p, k) == \E n \in 1..Len(df_returned) : df_returned[n] = <<p, k>>

\* C27: a resumed download (start_page > 1) that gave up on no page returns a
\* dataset with the records of every page of the portal: page start_page and
\* every later page are appended to the saved records, no page is skipped.
C27_ResumeSkipsNoPage ==
    (pc = "downloaded" /\ start_page > 1 /\ ~broke_off) =>
        \A p \in 1..total_pages : \A k \in 1..PageSize(p) : Delivered(p, k)

====
